---- MODULE Spec2Model ----
(***************************************************************************)
(* Endpoint convergence engine of lib/actions/EndpointBuildApiGateway.js:  *)
(* Builder.build and its stages, run against a model of the API Gateway    *)
(* and Lambda control planes; and the envGet action of                     *)
(* lib/actions/EnvGet.js, run on a framework object and a project.         *)
(*                                                                         *)
(* Strings are sequences of symbols.  A path is a sequence of one-letter   *)
(* symbols so that indexOf / substring / split act on it as they do in     *)
(* JavaScript; other strings (region, restApiId, ARNs) are sequences of    *)
(* coarser symbols.  JavaScript values are tagged records.                 *)
(***************************************************************************)
EXTENDS Integers, Sequences, FiniteSets, TLC

(***************************************************************************)
(* Bounds of the model.                                                    *)
(***************************************************************************)
MaxSegs   == 3   \* longest declared path, in segments
MaxRuns   == 2   \* successive runs of Builder.build
MaxFaults == 1   \* remote calls that fail for a reason outside the model
MaxFiles  == 2   \* files of a package

Runs == 1..MaxRuns

(***************************************************************************)
(* JavaScript values.                                                      *)
(***************************************************************************)
Undef   == [t |-> "undef"]
Null    == [t |-> "null"]
Str(s)  == [t |-> "str", v |-> s]
Bool(b) == [t |-> "bool", v |-> b]
Obj(es) == [t |-> "obj", v |-> es]   \* es: sequence of [k, v] entries, in insertion order

\* !x
Falsy(x) ==
  CASE x.t = "undef" -> TRUE
    [] x.t = "null"  -> TRUE
    [] x.t = "str"   -> x.v = <<>>
    [] x.t = "bool"  -> ~x.v
    [] OTHER         -> FALSE

\* typeof x === 'undefined'
TypeofUndefined(x) == x.t = "undef"

\* obj[name]: undefined when the object has no such property
Prop(obj, name) == IF name \in DOMAIN obj THEN obj[name] ELSE Undef

\* obj[name] = val
SetProp(obj, name, val) ==
  [n \in DOMAIN obj \cup {name} |-> IF n = name THEN val ELSE obj[n]]

\* Object.keys(o)
ObjectKeys(o) == [i \in 1..Len(o.v) |-> o.v[i].k]

\* o[key] for an object value
ObjectGet(o, key) ==
  IF \E i \in 1..Len(o.v) : o.v[i].k = key
    THEN o.v[CHOOSE i \in 1..Len(o.v) : o.v[i].k = key].v
    ELSE Undef

(***************************************************************************)
(* JavaScript string and array functions (indices are 0-based as in JS).   *)
(***************************************************************************)
\* s.substring(from, to)
Substring(s, from, to) == [i \in 1..(to - from) |-> s[from + i]]

\* s.indexOf(sub)
StringIndexOf(s, sub) ==
  LET hits == {i \in 0..(Len(s) - Len(sub)) : Substring(s, i, i + Len(sub)) = sub}
  IN  IF hits = {} THEN -1 ELSE CHOOSE i \in hits : \A j \in hits : i <= j

\* arr.indexOf(x)
ArrayIndexOf(arr, x) ==
  LET hits == {i \in 1..Len(arr) : arr[i] = x}
  IN  IF hits = {} THEN -1 ELSE (CHOOSE i \in hits : \A j \in hits : i <= j) - 1

RECURSIVE SplitFrom(_, _, _, _, _)
SplitFrom(s, sep, i, cur, acc) ==
  IF i > Len(s) THEN Append(acc, cur)
  ELSE IF s[i] = sep THEN SplitFrom(s, sep, i + 1, <<>>, Append(acc, cur))
  ELSE SplitFrom(s, sep, i + 1, Append(cur, s[i]), acc)

\* s.split(sep)
Split(s, sep) == SplitFrom(s, sep, 1, <<>>, <<>>)

RECURSIVE Join(_, _)
\* arr.join(sep)
Join(arr, sep) ==
  IF arr = <<>> THEN <<>>
  ELSE IF Len(arr) = 1 THEN arr[1]
  ELSE arr[1] \o <<sep>> \o Join(Tail(arr), sep)

\* s.replace(/\//g, by): by is a string
ReplaceSlashes(s, by) ==
  LET RECURSIVE go(_)
      go(i) == IF i > Len(s) THEN <<>>
               ELSE (IF s[i] = "/" THEN by ELSE <<s[i]>>) \o go(i + 1)
  IN  go(1)

\* s.replace(prefix, ''): removes the first occurrence of the symbols of prefix
ReplaceFirst(s, sub) ==
  LET at == StringIndexOf(s, sub)
  IN  IF at < 0 THEN s
      ELSE Substring(s, 0, at) \o Substring(s, at + Len(sub), Len(s))

UpperOf == [c \in {"g", "e", "t", "p", "u", "o", "s"} |->
              CASE c = "g" -> "G" [] c = "e" -> "E" [] c = "t" -> "T"
                [] c = "p" -> "P" [] c = "u" -> "U" [] c = "o" -> "O"
                [] c = "s" -> "S"]

\* s.toUpperCase()
ToUpperCase(s) == [i \in 1..Len(s) |-> IF s[i] \in DOMAIN UpperOf THEN UpperOf[s[i]] ELSE s[i]]

(***************************************************************************)
(* _validateAndPrepare: the checks and the normalisation.                  *)
(***************************************************************************)
\* evt.region.iamRoleArnLambda.replace('arn:aws:iam::', '').split(':')[0]
AwsAccountNumber(iamRoleArnLambda) ==
  Split(ReplaceFirst(iamRoleArnLambda, <<"arn:aws:iam::">>), ":")[1]

\* The checks with apiKeyRequired tested after the two request properties.
ValidationErrorReordered(endpoint) ==
  CASE Falsy(Prop(endpoint, "path"))                         -> "path"
    [] Falsy(Prop(endpoint, "method"))                       -> "method"
    [] Falsy(Prop(endpoint, "authorizationType"))            -> "authorizationType"
    [] Falsy(Prop(endpoint, "requestTemplates"))             -> "requestTemplates"
    [] Falsy(Prop(endpoint, "requestParameters"))            -> "requestParameters"
    [] TypeofUndefined(Prop(endpoint, "apiKeyRequired"))     -> "apiKeyRequired"
    [] Falsy(Prop(endpoint, "responses"))                    -> "responses"
    [] OTHER                                                 -> "none"

\* The property named by the SError thrown, or "none" when every check passes.
ValidationError(endpoint) ==
  CASE Falsy(Prop(endpoint, "path"))                         -> "path"
    [] Falsy(Prop(endpoint, "method"))                       -> "method"
    [] Falsy(Prop(endpoint, "authorizationType"))            -> "authorizationType"
    [] TypeofUndefined(Prop(endpoint, "apiKeyRequired"))     -> "apiKeyRequired"
    [] Falsy(Prop(endpoint, "requestTemplates"))             -> "requestTemplates"
    [] Falsy(Prop(endpoint, "requestParameters"))            -> "requestParameters"
    [] Falsy(Prop(endpoint, "responses"))                    -> "responses"
    [] OTHER                                                 -> "none"

\* if (path.charAt(0) === '/') path = path.substring(1)
SanitizePath(path) ==
  IF Len(path) > 0 /\ path[1] = "/" THEN Substring(path, 1, Len(path)) ELSE path

\* ('s-apig-' + path + '-' + method).replace(/\//g, '_')
StatementId(path, method) ==
  ReplaceSlashes(<<"s-apig-">> \o path \o <<"-">> \o method, <<"_">>)

\* The endpoint object as _validateAndPrepare leaves it when no check throws.
PrepareEndpoint(endpoint) ==
  LET path   == SanitizePath(endpoint["path"].v)
      method == ToUpperCase(endpoint["method"].v)
      e1     == SetProp(endpoint, "path", Str(path))
      e2     == SetProp(e1, "method", Str(method))
  IN  SetProp(e2, "statementId", Str(StatementId(path, method)))

(***************************************************************************)
(* _createEndpointResources: the lookup of a segment's resource.           *)
(***************************************************************************)
\* endpoint.path.split('/')
EResources(path) == Split(path, "/")

\* The path findEndpointResource looks for.
FindResourcePath(path, resource, parent) ==
  LET eResources == EResources(path)
      resource0  == ReplaceSlashes(resource, <<>>)
      index0     == ArrayIndexOf(eResources, resource0)
      index      == IF parent THEN index0 - 1 ELSE index0
      resource1  == IF parent /\ index >= 0 THEN eResources[index + 1] ELSE resource0
  IN  IF index < 0 THEN <<"/">>
      ELSE <<"/">> \o Substring(path, 0, StringIndexOf(path, resource1) + Len(resource1))

\* The lookup over the nodes below the root only.
FindEndpointResourceBelowRoot(apiResources, path, resource, parent) ==
  LET resourcePath == FindResourcePath(path, resource, parent)
      hits         == {i \in 1..Len(apiResources) :
                         /\ apiResources[i].path = resourcePath
                         /\ apiResources[i].path # <<"/">>}
  IN  IF hits = {} THEN Undef
      ELSE apiResources[CHOOSE i \in hits : \A j \in hits : i <= j]

\* findEndpointResource(resource, parent): the first node of the snapshot
\* with that path, undefined when there is none.
FindEndpointResource(apiResources, path, resource, parent) ==
  LET resourcePath == FindResourcePath(path, resource, parent)
      hits         == {i \in 1..Len(apiResources) : apiResources[i].path = resourcePath}
  IN  IF hits = {} THEN Undef
      ELSE apiResources[CHOOSE i \in hits : \A j \in hits : i <= j]

(***************************************************************************)
(* The caller's inputs.                                                    *)
(***************************************************************************)
Stage  == <<"dev">>
Region == [region           |-> <<"us-east-1">>,
           restApiId        |-> <<"abc123">>,
           iamRoleArnLambda |-> <<"arn:aws:iam::", "123456789012", ":", "role/lambda">>]

Segments == {<<"a">>, <<"a", "b">>}

\* Normalized paths of 1..MaxSegs segments, e.g. a, ab/a, a/ab/a.
SegmentPaths == {Join(ss, "/") : ss \in UNION {[1..n -> Segments] : n \in 1..MaxSegs}}

\* Declared paths: with and without the leading slash, and the root "/".
DeclaredPaths == SegmentPaths \cup {<<"/">> \o p : p \in SegmentPaths \cup {<<>>}}

RequiredFields == {"path", "method", "authorizationType", "apiKeyRequired",
                   "requestTemplates", "requestParameters", "responses"}

ResponseSpecs ==
  {<<>>,
   <<[k |-> "default", v |-> [statusCode |-> "200"]]>>,
   <<[k |-> "default", v |-> [statusCode |-> "200"]],
     [k |-> "500",     v |-> [statusCode |-> "500"]]>>}

RequestParameterSpecs ==
  {<<>>,
   <<[k |-> "integration.request.querystring.id", v |-> "method.request.querystring.id"]>>}

EndpointSpec(path, method, requestParameters, responses) ==
  [path              |-> Str(path),
   method            |-> Str(method),
   authorizationType |-> Str(<<"NONE">>),
   apiKeyRequired    |-> Bool(FALSE),
   requestTemplates  |-> Obj(<<>>),
   requestParameters |-> Obj(requestParameters),
   responses         |-> Obj(responses),
   function          |-> Str(<<"fn">>)]

\* obj without the properties of names
Omit(obj, names) == [n \in DOMAIN obj \ names |-> obj[n]]

Get == <<"g", "e", "t">>

\* Endpoint definitions that differ in path, request parameters and responses.
SpecsByPath ==
  {EndpointSpec(p, Get, q, rs) :
     p \in DeclaredPaths, q \in RequestParameterSpecs, rs \in ResponseSpecs}

Post == <<"p", "o", "s", "t">>

TwoResponses ==
  <<[k |-> "default", v |-> [statusCode |-> "200"]],
    [k |-> "500",     v |-> [statusCode |-> "500"]]>>

\* Endpoint definitions deployed more than once.
SpecsToRerun ==
  {EndpointSpec(p, Get, <<>>, TwoResponses) : p \in SegmentPaths \cup {<<"/">>}}

\* Endpoints of the same function deployed after another one.
SpecsOfOthers ==
  {EndpointSpec(<<"a">>, Post, <<>>, TwoResponses),
   EndpointSpec(<<"a", "_", "a">>, Get, <<>>, TwoResponses)}

\* Endpoints under a common parent resource, deployed at the same time:
\* a/b by run 1, a/bb by run 2, and so on.
SpecOfSibling(r) ==
  EndpointSpec(<<"a", "/">> \o [i \in 1..r |-> "b"], Get, <<>>, <<>>)

\* Endpoint definitions that differ in path, method and request parameters.
SpecsToPrepare ==
  {EndpointSpec(p, m, q, <<>>) :
     p \in DeclaredPaths \cup {<<"a", "_", "a">>},
     m \in {Get, ToUpperCase(Get), Post},
     q \in RequestParameterSpecs}

\* The selection patterns a response declares: none matching, or a regex.
DeclaredPatterns == {<<>>, <<"Error.*">>}

\* Endpoint definitions whose responses declare a selectionPattern.
SpecsByPattern ==
  {EndpointSpec(<<"a">>, Get, <<>>,
     <<[k |-> "default", v |-> [statusCode |-> "200", selectionPattern |-> Str(p)]],
       [k |-> "500",     v |-> [statusCode |-> "500", selectionPattern |-> Str(q)]]>>) :
     p \in DeclaredPatterns, q \in DeclaredPatterns}

\* The required properties that may be empty.
NullableFields == {"apiKeyRequired", "requestParameters", "responses"}

\* Endpoint definitions with a required property present and null.
SpecsByNull ==
  {SetProp(EndpointSpec(<<"a">>, Get, <<>>, <<>>), f, Null) : f \in NullableFields}

\* Endpoint definitions with any set of required fields missing.
SpecsByMissing ==
  {Omit(EndpointSpec(<<"a">>, Get, <<>>, <<>>), missing) : missing \in SUBSET RequiredFields}

(***************************************************************************)
(* The remote control planes (API Gateway, Lambda).                        *)
(***************************************************************************)
RootNode == [id |-> 1, parentId |-> 0, pathPart |-> <<>>, path |-> <<"/">>]

Node(id, parent, pathPart) ==
  [id |-> id, parentId |-> parent.id, pathPart |-> pathPart,
   path |-> IF parent.path = <<"/">> THEN <<"/">> \o pathPart
            ELSE parent.path \o <<"/">> \o pathPart]

\* createResource: a fresh node under parentId, or an error when the parent
\* does not exist or already has a child with that pathPart.
RemoteCreateResource(resources, parentId, pathPart) ==
  LET parents == {i \in 1..Len(resources) : resources[i].id = parentId}
  IN  IF parents = {} THEN [ok |-> FALSE, error |-> "NotFoundException"]
      ELSE IF \E i \in 1..Len(resources) :
                resources[i].parentId = parentId /\ resources[i].pathPart = pathPart
        THEN [ok |-> FALSE, error |-> "ConflictException"]
      ELSE [ok |-> TRUE,
            response |-> Node(Len(resources) + 1, resources[CHOOSE i \in parents : TRUE], pathPart)]

LambdaConfiguration ==
  [FunctionName |-> <<"proj-fn">>,
   FunctionArn  |-> <<"arn:aws:lambda:", "us-east-1", ":", "123456789012", ":function:", "proj-fn">>]

VARIABLES
  remoteResources,   \* API Gateway: the resource nodes of the REST API, in creation order
  remoteMethods,     \* API Gateway: the methods, each with its integration and responses
  remotePolicy,      \* Lambda: the function's access policy
  given,             \* given[r]: the endpoint definition the caller passed to run r
  evt,               \* evt[r]: the context object of run r
  pc,                \* pc[r]: the stage run r is at
  eachIndex,         \* eachIndex[r]: position of the .each() iteration run r is in
  calls,             \* calls[r]: the remote calls run r has issued, in order
  outcome,           \* outcome[r]: the error that rejected run r
  faults,            \* remote calls failed so far for a reason outside the model
  schedule,          \* how the caller invokes the runs
  S,                 \* the framework object the plugins are registered on
  thisEvt,           \* this.evt of the EnvGet plugin instance
  invocation,        \* invocation[r]: the r-th call of envGet on that instance
  compressor         \* the codeCompressLambdaNodejs action, and the files it wrote

vars == <<remoteResources, remoteMethods, remotePolicy, given, evt, pc, eachIndex,
          calls, outcome, faults, schedule, S, thisEvt, invocation,
          compressor>>

remote == <<remoteResources, remoteMethods, remotePolicy>>

plugin == <<S, thisEvt, invocation>>

\* Whether the next remote call may fail for an outside reason.
FaultChoices == IF faults < MaxFaults THEN {FALSE, TRUE} ELSE {FALSE}

NoError == [type |-> "none"]

Finished(r) == pc[r] \in {"resolved", "rejected"}

\* The caller invokes run r.
CanStart(r) ==
  CASE schedule \in {"single", "returning", "envGet"} -> r = 1
    [] schedule = "successive" -> \A q \in 1..(r - 1) : Finished(q)
    [] OTHER                   -> TRUE

\* The alias the caller passes in evt.aliasEndpoint, undefined when it passes
\* none.
AliasEndpoints == IF schedule = "single" THEN {Undef, Str(<<"prod">>)} ELSE {Undef}

\* The endpoint definitions the caller passes.
InputsOf(r) ==
  CASE schedule = "single"     -> SpecsByPath \cup SpecsByMissing \cup SpecsByPattern
    [] schedule = "successive" -> IF r = 1 THEN SpecsToRerun
                                  ELSE {given[r - 1]} \cup SpecsOfOthers
    [] schedule = "concurrent" -> {SpecOfSibling(r)}
    [] schedule = "returning"  -> SpecsToRerun
    [] OTHER                   -> SpecsToPrepare \cup SpecsByNull

(***************************************************************************)
(* Steps shared by the stages.                                             *)
(***************************************************************************)
\* The run moves on to stage l.
Goto(r, l) == pc' = [pc EXCEPT ![r] = l] /\ outcome' = outcome

\* The promise chain of the run is rejected with err.
Reject(r, err) ==
  /\ pc' = [pc EXCEPT ![r] = "rejected"]
  /\ outcome' = [outcome EXCEPT ![r] = err]

\* The run issues a remote call; the log keeps whether it failed for an
\* outside reason.
Issue(r, call, fault) ==
  /\ calls' = [calls EXCEPT ![r] = Append(@, call @@ [fault |-> fault])]
  /\ faults' = IF fault THEN faults + 1 ELSE faults

NoCall == calls' = calls /\ faults' = faults

RemoteError(op, error) == [type |-> "RemoteError", call |-> op, error |-> error]

TypeError(stage) == [type |-> "TypeError", stage |-> stage]

(***************************************************************************)
(* build: the caller's invocation, which runs _validateAndPrepare.         *)
(***************************************************************************)
Build(r) ==
  /\ pc[r] = "idle"
  /\ CanStart(r)
  /\ \E endpoint \in InputsOf(r), aliasEndpoint \in AliasEndpoints :
       LET evt00 == [stage |-> Stage, region |-> Region, endpoint |-> endpoint]
           evt0  == IF aliasEndpoint = Undef THEN evt00
                    ELSE SetProp(evt00, "aliasEndpoint", aliasEndpoint)
           evt1  == SetProp(evt0, "awsAccountNumber",
                            AwsAccountNumber(Region.iamRoleArnLambda))
           field == ValidationError(endpoint)
       IN  /\ IF field # "none"
             THEN /\ evt' = [evt EXCEPT ![r] = evt1]
                  /\ Reject(r, [type |-> "SError", property |-> field])
             ELSE /\ evt' = [evt EXCEPT ![r] =
                               SetProp(evt1, "endpoint", PrepareEndpoint(endpoint))]
                  /\ Goto(r, "fetchDeployedLambda")
       /\ given' = [given EXCEPT ![r] = endpoint]
  /\ NoCall
  /\ UNCHANGED <<remote, eachIndex, schedule, plugin, compressor>>

(***************************************************************************)
(* _fetchDeployedLambda                                                    *)
(***************************************************************************)
FetchDeployedLambda(r) ==
  /\ pc[r] = "fetchDeployedLambda"
  /\ \E fault \in FaultChoices :
       /\ Issue(r, [op |-> "getFunction", ok |-> ~fault], fault)
       /\ IF fault
            THEN /\ Reject(r, RemoteError("getFunction", "fault"))
                 /\ evt' = evt
            ELSE /\ evt' = [evt EXCEPT ![r].endpoint =
                              SetProp(@, "lambda", LambdaConfiguration)]
                 /\ Goto(r, "getApiResources")
  /\ UNCHANGED <<remote, eachIndex, schedule, plugin,
                 compressor, given>>

(***************************************************************************)
(* _getApiResources                                                        *)
(***************************************************************************)
\* The id the loop over the fetched items leaves in evt.apiParentResourceId.
RootResourceId(e, items) ==
  LET roots == {i \in 1..Len(items) : items[i].path = <<"/">>}
  IN  IF roots = {} THEN e
      ELSE SetProp(e, "apiParentResourceId",
                   items[CHOOSE i \in roots : \A j \in roots : j <= i].id)

GetApiResources(r) ==
  /\ pc[r] = "getApiResources"
  /\ \E fault \in FaultChoices :
       /\ Issue(r, [op |-> "getResources", ok |-> ~fault], fault)
       /\ IF fault
            THEN /\ Reject(r, RemoteError("getResources", "fault"))
                 /\ evt' = evt
            ELSE /\ evt' = [evt EXCEPT ![r] =
                              RootResourceId(SetProp(@, "apiResources", remoteResources),
                                             remoteResources)]
                 /\ Goto(r, "createEndpointResources")
  /\ UNCHANGED <<remote, eachIndex, schedule, plugin,
                 compressor, given>>

(***************************************************************************)
(* _createEndpointResources: one iteration of the .each() over the         *)
(* segments; the last one is followed by the handler that attaches the     *)
(* endpoint's resource.                                                    *)
(***************************************************************************)
\* evt.resource = findEndpointResource(endpoint.path.split('/').pop())
\* (the path and its last segment are bound as values, once)
AttachResource(e) ==
  CHOOSE attached \in
    {SetProp(e, "resource", FindEndpointResource(e.apiResources, path, last, FALSE)) :
       path \in {e.endpoint.path.v},
       last \in {ReplaceSlashes(EResources(e.endpoint.path.v)
                                  [Len(EResources(e.endpoint.path.v))], <<>>)}} : TRUE

\* As below, with the position of the iteration kept in one place for all
\* the runs instead of in each run's own closure.
NextSegmentShared(r, e) ==
  IF eachIndex[r] < Len(EResources(e.endpoint.path.v))
    THEN /\ evt' = [evt EXCEPT ![r] = e]
         /\ eachIndex' = [q \in Runs |-> eachIndex[r] + 1]
         /\ Goto(r, "createEndpointResources")
    ELSE /\ evt' = [evt EXCEPT ![r] = AttachResource(e)]
         /\ eachIndex' = [q \in Runs |-> 1]
         /\ Goto(r, "createEndpointMethod")

\* The iteration is over: on to the next segment, or out of the loop.
NextSegment(r, e) ==
  IF eachIndex[r] < Len(EResources(e.endpoint.path.v))
    THEN /\ evt' = [evt EXCEPT ![r] = e]
         /\ eachIndex' = [eachIndex EXCEPT ![r] = @ + 1]
         /\ Goto(r, "createEndpointResources")
    ELSE /\ evt' = [evt EXCEPT ![r] = AttachResource(e)]
         /\ eachIndex' = [eachIndex EXCEPT ![r] = 1]
         /\ Goto(r, "createEndpointMethod")

CreateEndpointResources(r) ==
  /\ pc[r] = "createEndpointResources"
  /\ \E e \in {evt[r]} :
     \E path \in {e.endpoint.path.v} :
     \E eResource \in {ReplaceSlashes(EResources(path)[eachIndex[r]], <<>>)} :
     \E resource \in {FindEndpointResource(e.apiResources, path, eResource, FALSE)} :
     \E parent \in {FindEndpointResource(e.apiResources, path, eResource, TRUE)} :
         IF resource # Undef
           THEN \* the resource exists: skip it
                /\ NextSegment(r, e)
                /\ NoCall
                /\ UNCHANGED remote
         ELSE IF parent = Undef
           THEN \* findEndpointResource(eResource, true).id of undefined
                /\ Reject(r, TypeError("createEndpointResources"))
                /\ NoCall
                /\ UNCHANGED <<remote, evt, eachIndex>>
         ELSE \E fault \in FaultChoices :
              \E e1 \in {SetProp(e, "apiParentResourceId", parent.id)} :
              \E params \in {[parentId |-> parent.id, pathPart |-> eResource]} :
              \E res \in {IF fault THEN [ok |-> FALSE, error |-> "fault"]
                          ELSE RemoteCreateResource(remoteResources, parent.id, eResource)} :
                    /\ Issue(r, [op |-> "createResource", ok |-> res.ok, params |-> params],
                             fault)
                    /\ IF res.ok
                         THEN /\ remoteResources' = Append(remoteResources, res.response)
                              /\ \E pushed \in {SetProp(e1, "apiResources",
                                                         Append(e.apiResources, res.response))} :
                                   NextSegment(r, pushed)
                         ELSE /\ remoteResources' = remoteResources
                              /\ evt' = [evt EXCEPT ![r] = e1]
                              /\ eachIndex' = eachIndex
                              /\ Reject(r, RemoteError("createResource", res.error))
                    /\ UNCHANGED <<remoteMethods, remotePolicy>>
  /\ UNCHANGED <<schedule, plugin, compressor, given>>

(***************************************************************************)
(* API Gateway methods: getMethod, deleteMethod, putMethod, putIntegration,*)
(* putMethodResponse, putIntegrationResponse.                              *)
(***************************************************************************)
MethodsAt(methods, resourceId, httpMethod) ==
  {m \in methods : m.resourceId = resourceId /\ m.httpMethod = httpMethod}

RemoteGetMethod(methods, params) ==
  LET found == MethodsAt(methods, params.resourceId, params.httpMethod)
  IN  IF found = {} THEN [ok |-> FALSE, error |-> "NotFoundException"]
      ELSE [ok |-> TRUE, response |-> CHOOSE m \in found : TRUE, methods |-> methods]

RemoteDeleteMethod(methods, params) ==
  LET found == MethodsAt(methods, params.resourceId, params.httpMethod)
  IN  IF found = {} THEN [ok |-> FALSE, error |-> "NotFoundException"]
      ELSE [ok |-> TRUE, methods |-> methods \ found]

RemotePutMethod(methods, params) ==
  IF MethodsAt(methods, params.resourceId, params.httpMethod) # {}
    THEN [ok |-> FALSE, error |-> "ConflictException"]
    ELSE [ok |-> TRUE,
          methods |-> methods \cup
            {[resourceId        |-> params.resourceId,
              httpMethod        |-> params.httpMethod,
              authorizationType |-> params.authorizationType,
              apiKeyRequired    |-> params.apiKeyRequired,
              requestModels     |-> params.requestModels,
              requestParameters |-> params.requestParameters,
              methodIntegration |-> Undef,
              methodResponses   |-> {}]}]

\* The methods at the key of params replaced by their updates.
UpdateMethod(methods, params, updated) ==
  (methods \ MethodsAt(methods, params.resourceId, params.httpMethod)) \cup updated

RemotePutIntegration(methods, params) ==
  LET integration == [type                  |-> params.type,
                      httpMethod            |-> params.integrationHttpMethod,
                      uri                   |-> params.uri,
                      credentials           |-> params.credentials,
                      requestParameters     |-> params.requestParameters,
                      requestTemplates      |-> params.requestTemplates,
                      cacheKeyParameters    |-> params.cacheKeyParameters,
                      cacheNamespace        |-> params.cacheNamespace,
                      integrationResponses  |-> {}]
      put(m) == [m EXCEPT !.methodIntegration = integration]
  IN  IF MethodsAt(methods, params.resourceId, params.httpMethod) = {}
        THEN [ok |-> FALSE, error |-> "NotFoundException"]
        ELSE [ok |-> TRUE, response |-> integration,
              methods |-> UpdateMethod(methods, params,
                {put(m) : m \in MethodsAt(methods, params.resourceId, params.httpMethod)})]

RemotePutMethodResponse(methods, params) ==
  LET found == MethodsAt(methods, params.resourceId, params.httpMethod)
      put(m) == [m EXCEPT !.methodResponses =
                   @ \cup {[statusCode         |-> params.statusCode,
                            responseModels     |-> params.responseModels,
                            responseParameters |-> params.responseParameters]}]
  IN  IF found = {} THEN [ok |-> FALSE, error |-> "NotFoundException"]
      ELSE IF \E m \in found : \E x \in m.methodResponses : x.statusCode = params.statusCode
        THEN [ok |-> FALSE, error |-> "ConflictException"]
      ELSE [ok |-> TRUE, methods |-> UpdateMethod(methods, params, {put(m) : m \in found})]

RemotePutIntegrationResponse(methods, params) ==
  LET found == MethodsAt(methods, params.resourceId, params.httpMethod)
      put(m) == [m EXCEPT !.methodIntegration.integrationResponses =
                   {x \in @ : x.statusCode # params.statusCode}
                   \cup {[statusCode         |-> params.statusCode,
                          selectionPattern   |-> params.selectionPattern,
                          responseParameters |-> params.responseParameters,
                          responseTemplates  |-> params.responseTemplates]}]
  IN  IF found = {} \/ \E m \in found : m.methodIntegration = Undef
        THEN [ok |-> FALSE, error |-> "NotFoundException"]
        ELSE [ok |-> TRUE, methods |-> UpdateMethod(methods, params, {put(m) : m \in found})]

\* A call's result when the call fails for an outside reason.
Faulted == [ok |-> FALSE, error |-> "fault"]

(***************************************************************************)
(* _createEndpointMethod                                                   *)
(***************************************************************************)
\* The requestParameters the method is put with: a presence flag for every
\* value of endpoint.requestParameters, filled in if (endpoint.RequestParameters).
MethodRequestParameters(endpoint) ==
  IF ~Falsy(Prop(endpoint, "RequestParameters"))
    THEN {endpoint.requestParameters.v[i].v : i \in 1..Len(endpoint.requestParameters.v)}
    ELSE {}

\* httpMethod, resourceId, restApiId of the endpoint's method
MethodKey(e) ==
  [httpMethod |-> e.endpoint.method.v,
   resourceId |-> e.resource.id,
   restApiId  |-> e.region.restApiId]

PutMethodParams(e) ==
  [authorizationType |-> e.endpoint.authorizationType,
   httpMethod        |-> e.endpoint.method.v,
   resourceId        |-> e.resource.id,
   restApiId         |-> e.region.restApiId,
   apiKeyRequired    |-> e.endpoint.apiKeyRequired,
   requestModels     |-> Prop(e.endpoint, "requestModels"),
   requestParameters |-> MethodRequestParameters(e.endpoint)]

\* getMethod and the handler of its outcome: delete and recreate when the
\* method is there, create on any error.
GetMethod(r) ==
  /\ pc[r] = "createEndpointMethod"
  /\ IF evt[r].resource = Undef
       THEN \* evt.resource.id of undefined
            /\ Reject(r, TypeError("createEndpointMethod"))
            /\ NoCall
            /\ evt' = evt
       ELSE \E fault \in FaultChoices :
              LET res == IF fault THEN Faulted
                         ELSE RemoteGetMethod(remoteMethods, MethodKey(evt[r]))
              IN  /\ Issue(r, [op |-> "getMethod", ok |-> res.ok,
                               error |-> IF res.ok THEN "none" ELSE res.error], fault)
                  /\ IF res.ok
                       THEN /\ evt' = [evt EXCEPT ![r] =
                                         IF res.response.methodIntegration # Undef
                                           THEN SetProp(@, "prevIntegration",
                                                        res.response.methodIntegration)
                                           ELSE @]
                            /\ Goto(r, "deleteMethod")
                       ELSE /\ evt' = evt
                            /\ Goto(r, "putMethod")
  /\ UNCHANGED <<remote, eachIndex, schedule, plugin,
                 compressor, given>>

\* As below, with deleteMethod issued again after it failed.
DeleteMethodRetried(r) ==
  /\ pc[r] = "deleteMethod"
  /\ \E fault \in FaultChoices :
       LET res == IF fault THEN Faulted
                  ELSE RemoteDeleteMethod(remoteMethods, MethodKey(evt[r]))
       IN  /\ Issue(r, [op |-> "deleteMethod", ok |-> res.ok], fault)
           /\ IF res.ok
                THEN remoteMethods' = res.methods /\ Goto(r, "putMethod")
                ELSE remoteMethods' = remoteMethods /\ Goto(r, "deleteMethod")
  /\ UNCHANGED <<remoteResources, remotePolicy, evt, eachIndex, schedule, plugin,
                 compressor, given>>

DeleteMethod(r) ==
  /\ pc[r] = "deleteMethod"
  /\ \E fault \in FaultChoices :
       LET res == IF fault THEN Faulted
                  ELSE RemoteDeleteMethod(remoteMethods, MethodKey(evt[r]))
       IN  /\ Issue(r, [op |-> "deleteMethod", ok |-> res.ok], fault)
           /\ IF res.ok
                THEN remoteMethods' = res.methods /\ Goto(r, "putMethod")
                ELSE remoteMethods' = remoteMethods
                     /\ Reject(r, RemoteError("deleteMethod", res.error))
  /\ UNCHANGED <<remoteResources, remotePolicy, evt, eachIndex, schedule, plugin,
                 compressor, given>>

PutMethod(r) ==
  /\ pc[r] = "putMethod"
  /\ \E fault \in FaultChoices :
       LET params == PutMethodParams(evt[r])
           res    == IF fault THEN Faulted ELSE RemotePutMethod(remoteMethods, params)
       IN  /\ Issue(r, [op |-> "putMethod", ok |-> res.ok, params |-> params], fault)
           /\ IF res.ok
                THEN remoteMethods' = res.methods /\ Goto(r, "delay")
                ELSE remoteMethods' = remoteMethods
                     /\ Reject(r, RemoteError("putMethod", res.error))
  /\ UNCHANGED <<remoteResources, remotePolicy, evt, eachIndex, schedule, plugin,
                 compressor, given>>

\* As below, with a timer that is never armed: the chain stays suspended.
DelayNeverResumed(r) ==
  /\ pc[r] = "delay"
  /\ UNCHANGED vars

\* .delay(250): the chain is suspended once the method has been put.
Delay(r) ==
  /\ pc[r] = "delay"
  /\ calls' = [calls EXCEPT ![r] = Append(@, [op |-> "delay", ok |-> TRUE, fault |-> FALSE])]
  /\ Goto(r, "createEndpointIntegration")
  /\ UNCHANGED <<remote, evt, eachIndex, faults, schedule, plugin, compressor, given>>

(***************************************************************************)
(* _createEndpointIntegration                                              *)
(***************************************************************************)
\* x || y
OrElse(x, y) == IF Falsy(x) THEN y ELSE x

\* The alias taken from the integration of the method that was there.
IntegrationAliasOfPrevious(e) ==
  IF ~Falsy(Prop(e, "aliasEndpoint")) /\ Prop(e, "prevIntegration") = Undef
    THEN e.aliasEndpoint.v
  ELSE <<"${stageVariables.functionAlias}">>

\* The alias of the Lambda function in the integration's uri.
IntegrationAlias(e) ==
  IF ~Falsy(Prop(e, "aliasEndpoint")) THEN e.aliasEndpoint.v
  ELSE <<"${stageVariables.functionAlias}">>

IntegrationParams(e) ==
  [httpMethod            |-> e.endpoint.method.v,
   resourceId            |-> e.resource.id,
   restApiId             |-> e.region.restApiId,
   type                  |-> "AWS",
   cacheKeyParameters    |-> OrElse(Prop(e.endpoint, "cacheKeyParameters"), Obj(<<>>)),
   cacheNamespace        |-> OrElse(Prop(e.endpoint, "cacheNamespace"), Null),
   credentials           |-> Null,
   integrationHttpMethod |-> "POST",
   requestParameters     |-> OrElse(Prop(e.endpoint, "requestParameters"), Obj(<<>>)),
   requestTemplates      |-> OrElse(Prop(e.endpoint, "requestTemplates"), Obj(<<>>)),
   uri                   |-> <<"arn:aws:apigateway:">> \o e.region.region
                             \o <<":lambda:path/2015-03-31/functions/arn:aws:lambda:">>
                             \o e.region.region \o <<":">> \o e.awsAccountNumber
                             \o <<":function:">> \o e.endpoint.lambda.FunctionName
                             \o <<":">> \o IntegrationAlias(e) \o <<"/invocations">>]

CreateEndpointIntegration(r) ==
  /\ pc[r] = "createEndpointIntegration"
  /\ \E fault \in FaultChoices :
       LET params == IntegrationParams(evt[r])
           res    == IF fault THEN Faulted ELSE RemotePutIntegration(remoteMethods, params)
       IN  /\ Issue(r, [op |-> "putIntegration", ok |-> res.ok, params |-> params], fault)
           /\ IF res.ok
                THEN /\ remoteMethods' = res.methods
                     /\ evt' = [evt EXCEPT ![r] = SetProp(@, "integration", res.response)]
                     /\ Goto(r, "createEndpointMethodResponses")
                ELSE /\ remoteMethods' = remoteMethods
                     /\ evt' = evt
                     /\ Reject(r, [type |-> "SError", call |-> "putIntegration",
                                   error |-> res.error])
  /\ UNCHANGED <<remoteResources, remotePolicy, eachIndex, schedule, plugin,
                 compressor, given>>

(***************************************************************************)
(* _createEndpointMethodResponses and _createEndpointMethodIntegResponses: *)
(* one iteration of the .each() over the response keys.                    *)
(***************************************************************************)
\* Object.keys(endpoint.responses), [] when there are no responses
ResponseKeys(endpoint) ==
  IF ~Falsy(Prop(endpoint, "responses")) THEN ObjectKeys(endpoint.responses) ELSE <<>>

\* The keys of obj, each flagged true
PresenceFlags(obj) == IF Falsy(obj) THEN {} ELSE {obj.v[i].k : i \in 1..Len(obj.v)}

MethodResponseParams(e, responseKey) ==
  LET thisResponse == ObjectGet(e.endpoint.responses, responseKey)
  IN  [httpMethod         |-> e.endpoint.method.v,
       resourceId         |-> e.resource.id,
       restApiId          |-> e.region.restApiId,
       statusCode         |-> thisResponse.statusCode,
       responseModels     |-> OrElse(Prop(thisResponse, "responseModels"), Obj(<<>>)),
       responseParameters |-> PresenceFlags(Prop(thisResponse, "responseParameters"))]

\* thisResponse.selectionPattern || (responseKey === 'default' ? null : responseKey)
SelectionPattern(thisResponse, responseKey) ==
  OrElse(Prop(thisResponse, "selectionPattern"),
         IF responseKey = "default" THEN Null ELSE Str(<<responseKey>>))

IntegrationResponseParams(e, responseKey) ==
  LET thisResponse == ObjectGet(e.endpoint.responses, responseKey)
  IN  [httpMethod         |-> e.endpoint.method.v,
       resourceId         |-> e.resource.id,
       restApiId          |-> e.region.restApiId,
       statusCode         |-> thisResponse.statusCode,
       responseParameters |-> OrElse(Prop(thisResponse, "responseParameters"), Obj(<<>>)),
       responseTemplates  |-> OrElse(Prop(thisResponse, "responseTemplates"), Obj(<<>>)),
       selectionPattern   |-> SelectionPattern(thisResponse, responseKey)]

\* The iteration is over: on to the next key, or out of the loop to stage l.
NextResponseKey(r, l) ==
  IF eachIndex[r] < Len(ResponseKeys(evt[r].endpoint))
    THEN eachIndex' = [eachIndex EXCEPT ![r] = @ + 1] /\ pc' = pc /\ outcome' = outcome
    ELSE eachIndex' = [eachIndex EXCEPT ![r] = 1] /\ Goto(r, l)

CreateEndpointMethodResponses(r) ==
  /\ pc[r] = "createEndpointMethodResponses"
  /\ LET keys == ResponseKeys(evt[r].endpoint)
     IN  IF keys = <<>>
           THEN /\ NextResponseKey(r, "createEndpointMethodIntegResponses")
                /\ NoCall
                /\ remoteMethods' = remoteMethods
           ELSE \E fault \in FaultChoices :
                  LET params == MethodResponseParams(evt[r], keys[eachIndex[r]])
                      res    == IF fault THEN Faulted
                                ELSE RemotePutMethodResponse(remoteMethods, params)
                  IN  /\ Issue(r, [op |-> "putMethodResponse", ok |-> res.ok,
                                   params |-> params], fault)
                      /\ IF res.ok
                           THEN /\ remoteMethods' = res.methods
                                /\ NextResponseKey(r, "createEndpointMethodIntegResponses")
                           ELSE /\ remoteMethods' = remoteMethods
                                /\ eachIndex' = eachIndex
                                /\ Reject(r, [type |-> "SError", call |-> "putMethodResponse",
                                              error |-> res.error])
  /\ UNCHANGED <<remoteResources, remotePolicy, evt, schedule, plugin, compressor, given>>

\* As below, with the error of putIntegrationResponse caught and dropped.
CreateEndpointMethodIntegResponsesSwallowed(r) ==
  /\ pc[r] = "createEndpointMethodIntegResponses"
  /\ LET keys == ResponseKeys(evt[r].endpoint)
     IN  IF keys = <<>>
           THEN /\ NextResponseKey(r, "manageLambdaAccessPolicy")
                /\ NoCall
                /\ remoteMethods' = remoteMethods
           ELSE \E fault \in FaultChoices :
                  LET params == IntegrationResponseParams(evt[r], keys[eachIndex[r]])
                      res    == IF fault THEN Faulted
                                ELSE RemotePutIntegrationResponse(remoteMethods, params)
                  IN  /\ Issue(r, [op |-> "putIntegrationResponse", ok |-> res.ok,
                                   params |-> params], fault)
                      /\ remoteMethods' = IF res.ok THEN res.methods ELSE remoteMethods
                      /\ NextResponseKey(r, "manageLambdaAccessPolicy")
  /\ UNCHANGED <<remoteResources, remotePolicy, evt, schedule, plugin, compressor, given>>

CreateEndpointMethodIntegResponses(r) ==
  /\ pc[r] = "createEndpointMethodIntegResponses"
  /\ LET keys == ResponseKeys(evt[r].endpoint)
     IN  IF keys = <<>>
           THEN /\ NextResponseKey(r, "manageLambdaAccessPolicy")
                /\ NoCall
                /\ remoteMethods' = remoteMethods
           ELSE \E fault \in FaultChoices :
                  LET params == IntegrationResponseParams(evt[r], keys[eachIndex[r]])
                      res    == IF fault THEN Faulted
                                ELSE RemotePutIntegrationResponse(remoteMethods, params)
                  IN  /\ Issue(r, [op |-> "putIntegrationResponse", ok |-> res.ok,
                                   params |-> params], fault)
                      /\ IF res.ok
                           THEN /\ remoteMethods' = res.methods
                                /\ NextResponseKey(r, "manageLambdaAccessPolicy")
                           ELSE /\ remoteMethods' = remoteMethods
                                /\ eachIndex' = eachIndex
                                /\ Reject(r, [type |-> "SError",
                                              call |-> "putIntegrationResponse",
                                              error |-> res.error])
  /\ UNCHANGED <<remoteResources, remotePolicy, evt, schedule, plugin, compressor, given>>

(***************************************************************************)
(* Lambda: getPolicy, removePermission, addPermission.                     *)
(***************************************************************************)
\* getPolicy: the policy document, or an error when the function has none.
RemoteGetPolicy(policy) ==
  IF policy = <<>> THEN [ok |-> FALSE, error |-> "ResourceNotFoundException"]
  ELSE [ok |-> TRUE, data |-> [Policy |-> [Statement |-> policy]]]

\* removePermission: the statement with that id is removed, or an error.
RemoteRemovePermission(policy, params) ==
  IF \A i \in 1..Len(policy) : policy[i].Sid # params.StatementId
    THEN [ok |-> FALSE, error |-> "ResourceNotFoundException"]
    ELSE [ok |-> TRUE,
          policy |-> SelectSeq(policy, LAMBDA st : st.Sid # params.StatementId)]

\* addPermission: a new statement, or an error when the id is taken.
RemoteAddPermission(policy, params) ==
  IF \E i \in 1..Len(policy) : policy[i].Sid = params.StatementId
    THEN [ok |-> FALSE, error |-> "ResourceConflictException"]
    ELSE [ok |-> TRUE,
          policy |-> Append(policy, [Sid       |-> params.StatementId,
                                     Action    |-> params.Action,
                                     Principal |-> params.Principal,
                                     SourceArn |-> params.SourceArn])]

(***************************************************************************)
(* _manageLambdaAccessPolicy: _getLambdaAccessPolicy,                      *)
(* _removeLambdaPermissionForEndpoint, _addLambdaPermissionForEndpoint.    *)
(***************************************************************************)
GetLambdaAccessPolicy(r) ==
  /\ pc[r] = "manageLambdaAccessPolicy"
  /\ IF Prop(evt[r].endpoint, "lambda") = Undef
       THEN \* the integration is not for a lambda: skip
            /\ Goto(r, "deployed")
            /\ NoCall
            /\ evt' = evt
       ELSE \E fault \in FaultChoices :
              LET res == IF fault THEN Faulted ELSE RemoteGetPolicy(remotePolicy)
              IN  /\ Issue(r, [op |-> "getPolicy", ok |-> res.ok], fault)
                  /\ evt' = [evt EXCEPT ![r].endpoint =
                               IF res.ok THEN SetProp(@, "lambdaPolicy", res.data.Policy)
                               ELSE @]
                  /\ Goto(r, "removeLambdaPermission")
  /\ UNCHANGED <<remote, eachIndex, schedule, plugin,
                 compressor, given>>

\* What the loop over policy.Statement leaves in the variable statement.
StatementToRemove(endpoint) ==
  LET policy == Prop(endpoint, "lambdaPolicy")
  IN  IF policy = Undef THEN Undef
      ELSE IF Len(policy.Statement) = 0 THEN Undef
      ELSE policy.Statement[Len(policy.Statement)]

\* As below, with the error of removePermission rejecting the run.
RemoveLambdaPermissionForEndpointFatal(r) ==
  /\ pc[r] = "removeLambdaPermission"
  /\ IF StatementToRemove(evt[r].endpoint) = Undef
       THEN /\ NoCall
            /\ remotePolicy' = remotePolicy
            /\ Goto(r, "addLambdaPermission")
       ELSE \E fault \in FaultChoices :
              LET params == [FunctionName |-> evt[r].endpoint.lambda.FunctionArn,
                             StatementId  |-> evt[r].endpoint.statementId.v]
                  res    == IF fault THEN Faulted
                            ELSE RemoteRemovePermission(remotePolicy, params)
              IN  /\ Issue(r, [op |-> "removePermission", ok |-> res.ok,
                               params |-> params], fault)
                  /\ remotePolicy' = IF res.ok THEN res.policy ELSE remotePolicy
                  /\ IF res.ok THEN Goto(r, "addLambdaPermission")
                     ELSE Reject(r, RemoteError("removePermission", res.error))
  /\ UNCHANGED <<remoteResources, remoteMethods, evt, eachIndex, schedule, plugin,
                 compressor, given>>

RemoveLambdaPermissionForEndpoint(r) ==
  /\ pc[r] = "removeLambdaPermission"
  /\ IF StatementToRemove(evt[r].endpoint) = Undef
       THEN /\ NoCall
            /\ remotePolicy' = remotePolicy
       ELSE \E fault \in FaultChoices :
              LET params == [FunctionName |-> evt[r].endpoint.lambda.FunctionArn,
                             StatementId  |-> evt[r].endpoint.statementId.v]
                  res    == IF fault THEN Faulted
                            ELSE RemoteRemovePermission(remotePolicy, params)
              IN  /\ Issue(r, [op |-> "removePermission", ok |-> res.ok,
                               params |-> params], fault)
                  /\ remotePolicy' = IF res.ok THEN res.policy ELSE remotePolicy
  /\ Goto(r, "addLambdaPermission")
  /\ UNCHANGED <<remoteResources, remoteMethods, evt, eachIndex, schedule, plugin,
                 compressor, given>>

\* endpoint.path = endpoint.path.split('/'); endpoint.path = endpoint.path.join('/')
RejoinPath(endpoint) ==
  SetProp(endpoint, "path", Str(Join(Split(endpoint.path.v, "/"), "/")))

AddPermissionParams(e) ==
  [Action       |-> "lambda:InvokeFunction",
   FunctionName |-> e.endpoint.lambda.FunctionArn,
   Principal    |-> "apigateway.amazonaws.com",
   StatementId  |-> e.endpoint.statementId.v,
   SourceArn    |-> <<"arn:aws:execute-api:">> \o e.region.region \o <<":">>
                    \o e.awsAccountNumber \o <<":">> \o e.region.restApiId
                    \o <<"/*/">> \o e.endpoint.method.v \o <<"/">> \o e.endpoint.path.v]

\* addPermission; the handler of its error returns and the chain goes on.
AddLambdaPermissionForEndpoint(r) ==
  /\ pc[r] = "addLambdaPermission"
  /\ \E fault \in FaultChoices :
       LET e      == [evt[r] EXCEPT !.endpoint = RejoinPath(@)]
           params == AddPermissionParams(e)
           res    == IF fault THEN Faulted ELSE RemoteAddPermission(remotePolicy, params)
       IN  /\ Issue(r, [op |-> "addPermission", ok |-> res.ok, params |-> params], fault)
           /\ remotePolicy' = IF res.ok THEN res.policy ELSE remotePolicy
           /\ evt' = [evt EXCEPT ![r] = e]
  /\ Goto(r, "deployed")
  /\ UNCHANGED <<remoteResources, remoteMethods, eachIndex, schedule, plugin,
                 compressor, given>>

(***************************************************************************)
(* build: the last handler sets the url and the run resolves with evt.     *)
(***************************************************************************)
\* The url without the stage in it.
EndpointUrlWithoutStage(e) ==
  <<"https://">> \o e.region.restApiId \o <<".execute-api.">> \o e.region.region
  \o <<".amazonaws.com/">> \o e.endpoint.path.v

EndpointUrl(e) ==
  <<"https://">> \o e.region.restApiId \o <<".execute-api.">> \o e.region.region
  \o <<".amazonaws.com/">> \o e.stage \o <<"/">> \o e.endpoint.path.v

Deployed(r) ==
  /\ pc[r] = "deployed"
  /\ evt' = [evt EXCEPT ![r].endpoint = SetProp(@, "url", Str(EndpointUrl(evt[r])))]
  /\ Goto(r, "resolved")
  /\ NoCall
  /\ UNCHANGED <<remote, eachIndex, schedule, plugin,
                 compressor, given>>

(***************************************************************************)
(* lib/actions/EnvGet.js: the envGet action of the EnvGet plugin.          *)
(***************************************************************************)
\* The project: its stages, each with the regions defined in it.
RegionEntry(name) == [region |-> Str(<<name>>)]

Arr(es) == [t |-> "arr", v |-> es]

ProjectOfOneStage ==
  [stages |-> Obj(<<[k |-> <<"dev">>, v |-> Arr(<<RegionEntry("us-east-1")>>)]>>)]

ProjectOfTwoStages ==
  [stages |-> Obj(<<[k |-> <<"dev">>, v |-> Arr(<<RegionEntry("us-east-1")>>)],
                    [k |-> <<"beta">>,
                     v |-> Arr(<<RegionEntry("us-east-1"), RegionEntry("eu-west-1")>>)]>>)]

Projects == {ProjectOfOneStage, ProjectOfTwoStages}

\* The credentials the framework object is constructed with.
Credentials ==
  {[awsProfile |-> p, awsAdminKeyId |-> k, awsAdminSecretKey |-> k] :
     p \in {Undef, Str(<<"default">>)}, k \in {Undef, Str(<<"secret">>)}}

\* The framework objects the plugin is registered on.  None is driven from
\* the command line: S.cli is undefined.
Frameworks ==
  {[interactive |-> i, cli |-> Undef, awsProfile |-> c.awsProfile,
    awsAdminKeyId |-> c.awsAdminKeyId, awsAdminSecretKey |-> c.awsAdminSecretKey,
    projectJson |-> p] : i \in BOOLEAN, c \in Credentials, p \in Projects}

\* The events a caller passes to envGet.
EventStages  == {Undef, Str(<<"dev">>), Str(<<"local">>), Str(<<"qa">>)}
EventRegions == {Undef, Str(<<"us-east-1">>), Str(<<"eu-west-1">>), Str(<<"all">>)}
EventKeys    == {Undef, Str(<<"JAWS_STAGE">>)}

WithProp(obj, name, val) == IF val = Undef THEN obj ELSE SetProp(obj, name, val)

EnvGetEvents ==
  {WithProp(WithProp(WithProp(<<>>, "stage", s), "region", g), "key", k) :
     s \in EventStages, g \in EventRegions, k \in EventKeys}

\* What the user answers to a prompt.
KeyAnswers    == {Str(<<"JAWS_STAGE">>)}
RegionAnswers == {Str(<<"us-east-1">>), Str(<<"all">>)}

\* The property name a value is used as in obj[value].
PropertyKey(x) == IF x.t = "str" THEN x.v ELSE <<x.t>>

\* awsMisc.getEnvFiles(S, region, stage): one env map per region asked for.
EnvMap(regionName, stage) ==
  [regionName |-> regionName, vars |-> Obj(<<[k |-> <<"JAWS_STAGE">>, v |-> stage]>>)]

GetEnvFiles(framework, region, stage) ==
  IF stage = Str(<<"local">>) THEN <<EnvMap(Str(<<"local">>), stage)>>
  ELSE IF region = Str(<<"all">>)
    THEN LET regions == ObjectGet(framework.projectJson.stages, PropertyKey(stage)).v
         IN  [i \in 1..Len(regions) |-> EnvMap(regions[i].region, stage)]
  ELSE <<EnvMap(region, stage)>>

\* The events of callers that use one plugin instance at the same time: each
\* names a stage of the project and a region of it, or all of them.
EventsToOverlap ==
  {[stage |-> s, region |-> g, key |-> Str(<<"JAWS_STAGE">>)] :
     s \in {Str(<<"dev">>), Str(<<"beta">>)}, g \in {Str(<<"us-east-1">>), Str(<<"all">>)}}

\* The events the callers pass, undefined when they pass none.
EnvGetInputs ==
  IF schedule = "envGet" THEN EnvGetEvents \cup {Undef} ELSE EventsToOverlap

\* The caller's invocation envGet(evt): lines 85-103, with validateProject
\* resolving on the project the framework object holds.
EnvGet(r) ==
  /\ invocation[r].pc = "idle"
  /\ CanStart(r)
  /\ \E event \in EnvGetInputs :
       LET passed   == event # Undef
           fromCli  == S.cli # Undef
           options  == IF fromCli THEN S.cli.options ELSE <<>>
       IN  /\ thisEvt' = IF fromCli THEN options
                         ELSE IF passed THEN event ELSE thisEvt
           /\ S' = [S EXCEPT !.interactive =
                      IF passed \/ (fromCli /\ ~Falsy(Prop(options, "nonInteractive")))
                        THEN FALSE ELSE @]
           /\ invocation' = [invocation EXCEPT ![r].pc = "promptKey", ![r].evt = event]
  /\ UNCHANGED <<compressor, remote, given, evt, pc, eachIndex, calls, outcome, faults, schedule>>

\* _promptKey
PromptKey(r) ==
  /\ invocation[r].pc = "promptKey"
  /\ IF ~S.interactive \/ ~Falsy(Prop(thisEvt, "key"))
       THEN /\ thisEvt' = thisEvt
            /\ invocation' = [invocation EXCEPT ![r].pc = "promptStage"]
       ELSE \E answer \in KeyAnswers :
              /\ thisEvt' = SetProp(thisEvt, "key", answer)
              /\ invocation' = [invocation EXCEPT ![r].pc = "promptStage",
                                                  ![r].prompts = Append(@, "key")]
  /\ UNCHANGED <<compressor, remote, given, evt, pc, eachIndex, calls, outcome, faults,
                 schedule, S>>

\* _promptStage
PromptStage(r) ==
  LET stages == ObjectKeys(S.projectJson.stages)
  IN  /\ invocation[r].pc = "promptStage"
      /\ IF ~S.interactive \/ ~Falsy(Prop(thisEvt, "stage"))
           THEN /\ thisEvt' = thisEvt
                /\ invocation' = [invocation EXCEPT ![r].pc = "promptRegion"]
         ELSE IF Len(stages) = 1
           THEN /\ thisEvt' = SetProp(thisEvt, "stage", Str(stages[1]))
                /\ invocation' = [invocation EXCEPT ![r].pc = "promptRegion"]
         ELSE \E i \in 1..Len(Append(stages, <<"local">>)) :
                /\ thisEvt' = SetProp(thisEvt, "stage", Str(Append(stages, <<"local">>)[i]))
                /\ invocation' = [invocation EXCEPT ![r].pc = "promptRegion",
                                                    ![r].prompts = Append(@, "stage")]
      /\ UNCHANGED <<compressor, remote, given, evt, pc, eachIndex, calls, outcome, faults,
                     schedule, S>>

\* _promptRegion
PromptRegion(r) ==
  /\ invocation[r].pc = "promptRegion"
  /\ IF Prop(thisEvt, "stage") = Str(<<"local">>)
       THEN /\ thisEvt' = SetProp(thisEvt, "region", Str(<<"local">>))
            /\ invocation' = [invocation EXCEPT ![r].pc = "validateAndPrepare"]
     ELSE IF ~S.interactive \/ ~Falsy(Prop(thisEvt, "region"))
       THEN /\ thisEvt' = thisEvt
            /\ invocation' = [invocation EXCEPT ![r].pc = "validateAndPrepare"]
     ELSE \E answer \in RegionAnswers :
            /\ thisEvt' = SetProp(thisEvt, "region", answer)
            /\ invocation' = [invocation EXCEPT ![r].pc = "validateAndPrepare",
                                                ![r].prompts = Append(@, "region")]
  /\ UNCHANGED <<compressor, remote, given, evt, pc, eachIndex, calls, outcome, faults,
                 schedule, S>>

\* stages[evt.stage].some(r => r.region == evt.region)
RegionInStage(framework, stage, region) ==
  LET regions == ObjectGet(framework.projectJson.stages, PropertyKey(stage)).v
  IN  \E i \in 1..Len(regions) : regions[i].region = region

\* The message _validateAndPrepare rejects with, "none" when it passes.
EnvGetValidationError(framework, e) ==
  LET stage  == Prop(e, "stage")
      region == Prop(e, "region")
  IN  IF /\ ~framework.interactive
         /\ Falsy(framework.awsProfile)
         /\ Falsy(framework.awsAdminKeyId) \/ Falsy(framework.awsAdminSecretKey)
        THEN "Missing AWS Profile and/or API Key and/or AWS Secret Key"
      ELSE IF /\ ~framework.interactive
              /\ Falsy(stage) \/ Falsy(region) \/ Falsy(Prop(e, "key"))
        THEN "Missing stage and/or region and/or key"
      ELSE IF /\ Falsy(ObjectGet(framework.projectJson.stages, PropertyKey(stage)))
              /\ stage # Str(<<"local">>)
        THEN "Stage does not exist in your project"
      ELSE IF /\ stage # Str(<<"local">>) /\ region # Str(<<"all">>)
              /\ ~RegionInStage(framework, stage, region)
        THEN "Region does not exist in stage"
      ELSE "none"

\* _validateAndPrepare
EnvGetValidateAndPrepare(r) ==
  /\ invocation[r].pc = "validateAndPrepare"
  /\ LET message == EnvGetValidationError(S, thisEvt)
     IN  invocation' =
           IF message # "none"
             THEN [invocation EXCEPT ![r].pc = "rejected",
                                     ![r].outcome = [type |-> "SError", message |-> message]]
             ELSE [invocation EXCEPT ![r].pc = "getEnvVar"]
  /\ UNCHANGED <<compressor, remote, given, evt, pc, eachIndex, calls, outcome, faults, schedule,
                 S, thisEvt>>

\* vars[key] of each env map that has it set, by region name.
ValByRegion(envMapsByRegion, key) ==
  LET set == {i \in 1..Len(envMapsByRegion) :
                ~Falsy(ObjectGet(envMapsByRegion[i].vars, PropertyKey(key)))}
  IN  {[regionName |-> envMapsByRegion[i].regionName,
        value      |-> ObjectGet(envMapsByRegion[i].vars, PropertyKey(key))] : i \in set}

\* _getEnvVar
GetEnvVar(r) ==
  /\ invocation[r].pc = "getEnvVar"
  /\ \E fault \in FaultChoices :
       LET region == Prop(thisEvt, "region")
           stage  == Prop(thisEvt, "stage")
           call   == [region |-> region, stage |-> stage, ok |-> ~fault]
           result == SetProp(thisEvt, "valByRegion",
                             ValByRegion(GetEnvFiles(S, region, stage), Prop(thisEvt, "key")))
       IN  /\ faults' = IF fault THEN faults + 1 ELSE faults
           /\ IF fault
                THEN /\ thisEvt' = thisEvt
                     /\ invocation' =
                          [invocation EXCEPT ![r].pc = "rejected",
                                             ![r].fetched = Append(@, call),
                                             ![r].outcome = RemoteError("getEnvFiles", "fault")]
                ELSE /\ thisEvt' = result
                     /\ invocation' =
                          [invocation EXCEPT ![r].pc = "resolved",
                                             ![r].fetched = Append(@, call),
                                             ![r].outcome = [type |-> "resolved", evt |-> result]]
  /\ UNCHANGED <<compressor, remote, given, evt, pc, eachIndex, calls, outcome, schedule, S>>

\* No envGet invocation yet, on a plugin just constructed (this.evt = {}).
Uninvoked ==
  [r \in Runs |-> [pc |-> "idle", evt |-> Undef, prompts |-> <<>>, fetched |-> <<>>,
                   outcome |-> NoError]]

(***************************************************************************)
(* lib/actions/FunctionCreate.js: the codeCompressLambdaNodejs action of   *)
(* the CodeCompressLambdaNodejs plugin.                                    *)
(***************************************************************************)
\* The Lambda limit the zip buffer is compared with, in bytes.
MaxZipBytes == 52428800

\* A packaged file {fileName, data}, with the number of bytes its data takes
\* in the zip once deflated.
PackagedFile(deflated) == [fileName |-> <<"index.js">>, deflated |-> deflated]

DeflatedSizes == {0, 1, MaxZipBytes - 1, MaxZipBytes}

\* evt.function.pathsPackaged: up to MaxFiles files, or undefined.
PackagedPaths ==
  {Undef} \cup
  UNION {{Arr([i \in 1..n |-> PackagedFile(sizes[i])]) : sizes \in [1..n -> DeflatedSizes]} :
           n \in 0..MaxFiles}

DistPaths == {<<"dist">>, <<"tmp", "/", "dist">>}

\* The events passed to codeCompressLambdaNodejs.
CompressEvents ==
  {[function |-> [pathsPackaged |-> files, pathDist |-> dist]] :
     files \in PackagedPaths, dist \in DistPaths}

RECURSIVE SumOfDeflated(_)
SumOfDeflated(files) ==
  IF files = <<>> THEN 0 ELSE files[1].deflated + SumOfDeflated(Tail(files))

\* zip.generate({type: 'nodebuffer', compression: 'DEFLATE'}).length, the
\* entries' headers left out.
ZipBufferLength(files) == SumOfDeflated(files.v)

\* path.join(pathDist, 'package.zip')
PathJoin(dir, name) == dir \o <<"/">> \o name

\* The invocation: _validateAndPrepare resolves with evt.
CodeCompressLambdaNodejs ==
  /\ schedule = "compress"
  /\ compressor.pc = "idle"
  /\ \E event \in CompressEvents :
       compressor' = [compressor EXCEPT !.pc = "compress", !.evt = event, !.given = event]
  /\ UNCHANGED <<remote, given, evt, pc, eachIndex, calls, outcome, faults, schedule, plugin>>

\* _compress: the buffer is generated and measured; over the limit a rejected
\* promise is created and dropped; then pathCompressed is set and the package
\* written, and the handler returns evt, or throws what writeFileSync throws.
Compress ==
  /\ compressor.pc = "compress"
  /\ IF compressor.evt.function.pathsPackaged = Undef
       THEN \* pathsPackaged.forEach of undefined
            /\ compressor' = [compressor EXCEPT !.pc = "catch", !.error = "TypeError"]
            /\ faults' = faults
     ELSE \E fault \in FaultChoices :
          \E pathCompressed \in
               {PathJoin(compressor.evt.function.pathDist, <<"package.zip">>)} :
          \E length \in {ZipBufferLength(compressor.evt.function.pathsPackaged)} :
            /\ faults' = IF fault THEN faults + 1 ELSE faults
            /\ compressor' =
                 [compressor EXCEPT
                    !.dropped = IF length > MaxZipBytes THEN Append(@, "ZIP_TOO_BIG") ELSE @,
                    !.evt.function = SetProp(@, "pathCompressed", pathCompressed),
                    !.disk  = IF fault THEN @
                              ELSE @ \cup {[path |-> pathCompressed, length |-> length]},
                    !.pc    = IF fault THEN "catch" ELSE "then",
                    !.error = IF fault THEN "EACCES" ELSE @]
  /\ UNCHANGED <<remote, given, evt, pc, eachIndex, calls, outcome, schedule, plugin>>

\* .then(function() { return evt; })
ReturnEvt ==
  /\ compressor.pc = "then"
  /\ compressor' = [compressor EXCEPT !.pc = "resolved",
                                      !.outcome = [type |-> "resolved", value |-> compressor.evt]]
  /\ UNCHANGED <<remote, given, evt, pc, eachIndex, calls, outcome, faults, schedule, plugin>>

\* .catch(function(e) {console.log(e, e.stack)}): the error is logged and the
\* promise of the action resolved with undefined.
CatchAndLog ==
  /\ compressor.pc = "catch"
  /\ compressor' = [compressor EXCEPT !.pc = "resolved",
                                      !.logged = Append(@, compressor.error),
                                      !.outcome = [type |-> "resolved", value |-> Undef]]
  /\ UNCHANGED <<remote, given, evt, pc, eachIndex, calls, outcome, faults, schedule, plugin>>

\* codeCompressLambdaNodejs not called yet, nothing written.
NotCompressing ==
  [pc |-> "idle", given |-> Undef, evt |-> Undef, disk |-> {}, dropped |-> <<>>,
   logged |-> <<>>, error |-> "none", outcome |-> NoError]

(***************************************************************************)
(* The remote state the runs start from.                                   *)
(***************************************************************************)
NodeA  == Node(2, RootNode, <<"a">>)
NodeAB == Node(3, NodeA, <<"b">>)

\* A method left by an earlier deployment, with its integration.
DeployedMethod(resourceId) ==
  [resourceId        |-> resourceId,
   httpMethod        |-> ToUpperCase(Get),
   authorizationType |-> Str(<<"NONE">>),
   apiKeyRequired    |-> Bool(TRUE),
   requestModels     |-> Undef,
   requestParameters |-> {},
   methodIntegration |-> [type |-> "AWS", httpMethod |-> "POST", uri |-> <<"old">>,
                          credentials |-> Null, requestParameters |-> Obj(<<>>),
                          requestTemplates |-> Obj(<<>>), cacheKeyParameters |-> Obj(<<>>),
                          cacheNamespace |-> Null, integrationResponses |-> {}],
   methodResponses   |-> {}]

Statement(sid) ==
  [Sid |-> sid, Action |-> "lambda:InvokeFunction",
   Principal |-> "apigateway.amazonaws.com", SourceArn |-> <<"other">>]

OtherSid == <<"s-other">>

InitialResources == {<<RootNode>>, <<RootNode, NodeA>>}

InitialMethods(resources) ==
  {{}} \cup {{DeployedMethod(resources[i].id)} : i \in 2..Len(resources)}

InitialPolicies ==
  {<<>>,
   <<Statement(OtherSid)>>,
   <<Statement(StatementId(<<"a">>, ToUpperCase(Get)))>>,
   <<Statement(StatementId(<<"a">>, ToUpperCase(Get))), Statement(OtherSid)>>}

\* The framework object the tests construct: interactive: false, with admin
\* keys and no profile.
TestFramework ==
  [interactive |-> FALSE, cli |-> Undef, awsProfile |-> Undef,
   awsAdminKeyId |-> Str(<<"secret">>), awsAdminSecretKey |-> Str(<<"secret">>),
   projectJson |-> ProjectOfOneStage]

InitRuns ==
  /\ given = [r \in Runs |-> <<>>]
  /\ evt = [r \in Runs |-> <<>>]
  /\ pc = [r \in Runs |-> "idle"]
  /\ eachIndex = [r \in Runs |-> 1]
  /\ calls = [r \in Runs |-> <<>>]
  /\ outcome = [r \in Runs |-> NoError]
  /\ thisEvt = <<>>
  /\ invocation = Uninvoked
  /\ compressor = NotCompressing

InitRemote ==
  /\ remoteResources \in InitialResources
  /\ remoteMethods \in InitialMethods(remoteResources)
  /\ remotePolicy \in InitialPolicies

\* One run, from any of the initial remote states.
Init == InitRuns /\ InitRemote /\ faults = 0 /\ schedule = "single" /\ S = TestFramework

\* Runs one after the other.
InitRerun == InitRuns /\ InitRemote /\ faults = 0 /\ schedule = "successive" /\ S = TestFramework

\* Runs at the same time, against an API that has only its root resource or
\* one where a/b is deployed; no call fails for an outside reason.
InitConcurrent ==
  /\ InitRuns
  /\ \/ remoteResources = <<RootNode>> /\ remoteMethods = {}
     \/ remoteResources = <<RootNode, NodeA, NodeAB>>
        /\ remoteMethods = {DeployedMethod(NodeAB.id)}
  /\ remotePolicy = <<>>
  /\ faults = MaxFaults
  /\ schedule = "concurrent"
  /\ S = TestFramework

\* Invocations only: _validateAndPrepare on pairs of endpoint definitions.
InitPrepare ==
  /\ InitRuns
  /\ remoteResources = <<RootNode>>
  /\ remoteMethods = {}
  /\ remotePolicy = <<>>
  /\ faults = 0
  /\ schedule = "prepare"
  /\ S = TestFramework

Run(r) ==
  \/ Build(r)
  \/ FetchDeployedLambda(r)
  \/ GetApiResources(r)
  \/ CreateEndpointResources(r)
  \/ GetMethod(r)
  \/ DeleteMethod(r)
  \/ PutMethod(r)
  \/ Delay(r)
  \/ CreateEndpointIntegration(r)
  \/ CreateEndpointMethodResponses(r)
  \/ CreateEndpointMethodIntegResponses(r)
  \/ GetLambdaAccessPolicy(r)
  \/ RemoveLambdaPermissionForEndpoint(r)
  \/ AddLambdaPermissionForEndpoint(r)
  \/ Deployed(r)

Next == \E r \in Runs : Run(r)

NextPrepare == \E r \in Runs : Build(r)

Spec == Init /\ [][Next]_vars

SpecRerun == InitRerun /\ [][Next]_vars

SpecConcurrent == InitConcurrent /\ [][Next]_vars

SpecPrepare == InitPrepare /\ [][NextPrepare]_vars

\* One run in which every remote call returns and every timer fires: the
\* handler that waits for it is eventually run.
InitReturning == InitRuns /\ InitRemote /\ faults = 0 /\ schedule = "returning" /\ S = TestFramework

SpecReturning == InitReturning /\ [][Next]_vars /\ \A r \in Runs : WF_vars(Run(r))

\* One envGet invocation on a plugin instance, on any framework object.
InitEnvGet ==
  /\ InitRuns
  /\ remoteResources = <<RootNode>>
  /\ remoteMethods = {}
  /\ remotePolicy = <<>>
  /\ faults = 0
  /\ schedule = "envGet"
  /\ S \in Frameworks

Invoke(r) ==
  \/ EnvGet(r)
  \/ PromptKey(r)
  \/ PromptStage(r)
  \/ PromptRegion(r)
  \/ EnvGetValidateAndPrepare(r)
  \/ GetEnvVar(r)

NextEnvGet == \E r \in Runs : Invoke(r)

SpecEnvGet == InitEnvGet /\ [][NextEnvGet]_vars

\* Invocations of envGet on one plugin instance that overlap, on the
\* framework object of the tests with a project of two stages.
InitEnvGetOverlap ==
  /\ InitRuns
  /\ remoteResources = <<RootNode>>
  /\ remoteMethods = {}
  /\ remotePolicy = <<>>
  /\ faults = 0
  /\ schedule = "envGetOverlap"
  /\ S = [TestFramework EXCEPT !.projectJson = ProjectOfTwoStages]

SpecEnvGetOverlap == InitEnvGetOverlap /\ [][NextEnvGet]_vars

\* One invocation of codeCompressLambdaNodejs, on an empty dist directory.
InitCompress ==
  /\ InitRuns
  /\ remoteResources = <<RootNode>>
  /\ remoteMethods = {}
  /\ remotePolicy = <<>>
  /\ faults = 0
  /\ schedule = "compress"
  /\ S = TestFramework

NextCompress ==
  \/ CodeCompressLambdaNodejs
  \/ Compress
  \/ ReturnEvt
  \/ CatchAndLog

SpecCompress == InitCompress /\ [][NextCompress]_vars

(***************************************************************************)
(* Properties.                                                             *)
(***************************************************************************)
\* No call of run r failed for an outside reason.
NoFaultIn(r) == \A i \in 1..Len(calls[r]) : ~calls[r][i].fault

\* Run r issued a call of that operation.
Called(r, op) == \E i \in 1..Len(calls[r]) : calls[r][i].op = op

\* The deployed-endpoint descriptor a run returns.
Descriptor(e) ==
  [path        |-> Prop(e.endpoint, "path"),
   method      |-> Prop(e.endpoint, "method"),
   statementId |-> Prop(e.endpoint, "statementId"),
   url         |-> Prop(e.endpoint, "url")]

\* The methods on the run's resource and verb, and the statements with its id.
MethodsOf(r) == MethodsAt(remoteMethods, evt[r].resource.id, evt[r].endpoint.method.v)

StatementsOf(r) ==
  {i \in 1..Len(remotePolicy) : remotePolicy[i].Sid = evt[r].endpoint.statementId.v}

\* No later run has been invoked.
LastRun(r) == \A q \in Runs : q > r => pc[q] = "idle"

\* C1: a run that follows a successful run for the same endpoint definition,
\* with no call of either failing for an outside reason, resolves with the
\* same descriptor (path, method, statementId, url), creates no resource, and
\* leaves one method on the endpoint's resource and verb, with an integration,
\* one statement with the endpoint's statementId, and no two nodes of one path.
C1_Idempotent ==
  \A r \in Runs \ {1} :
    (/\ Finished(r) /\ LastRun(r)
     /\ pc[r - 1] = "resolved"
     /\ given[r] = given[r - 1]
     /\ NoFaultIn(r - 1) /\ NoFaultIn(r))
    => /\ pc[r] = "resolved"
       /\ Descriptor(evt[r]) = Descriptor(evt[r - 1])
       /\ Cardinality(MethodsOf(r)) = 1
       /\ \A m \in MethodsOf(r) : m.methodIntegration # Undef
       /\ Cardinality(StatementsOf(r)) = 1
       /\ ~Called(r, "createResource")
       /\ \A i, j \in 1..Len(remoteResources) :
            remoteResources[i].path = remoteResources[j].path => i = j

\* The required properties in the order the spec checks them.
FieldOrder == <<"path", "method", "authorizationType", "apiKeyRequired",
                "requestTemplates", "requestParameters", "responses">>

FirstOf(fields) ==
  FieldOrder[CHOOSE i \in 1..Len(FieldOrder) :
               FieldOrder[i] \in fields /\ \A j \in 1..(i - 1) : FieldOrder[j] \notin fields]

MissingFields(r) == RequiredFields \ DOMAIN given[r]

\* C6: a run for a definition that lacks required fields is rejected with the
\* error naming the first missing one in the order path, method,
\* authorizationType, apiKeyRequired, requestTemplates, requestParameters,
\* responses, and has issued no remote call.
C6_ValidationNamesFirstMissing ==
  \A r \in Runs :
    (pc[r] # "idle" /\ MissingFields(r) # {})
    => /\ pc[r] = "rejected"
       /\ outcome[r] = [type |-> "SError", property |-> FirstOf(MissingFields(r))]
       /\ calls[r] = <<>>

\* C6's case: apiKeyRequired is the first of several missing fields.
C6_Witness ==
  \E r \in Runs :
    /\ pc[r] = "rejected"
    /\ MissingFields(r) = {"apiKeyRequired", "requestParameters", "responses"}
    /\ outcome[r].property = "apiKeyRequired"

\* The calls of run r, by position in its log.
CallsOf(r) == 1..Len(calls[r])

\* C2: a run that resolved has left the method, its integration, a method
\* response and an integration response for every key of endpoint.responses,
\* and a statement with the endpoint's statementId.
C2_NoPartialSuccess ==
  \A r \in Runs :
    (pc[r] = "resolved" /\ LastRun(r))
    => /\ \E m \in MethodsOf(r) :
            /\ m.methodIntegration # Undef
            /\ \A i \in 1..Len(evt[r].endpoint.responses.v) :
                 LET code == evt[r].endpoint.responses.v[i].v.statusCode
                 IN  /\ \E x \in m.methodResponses : x.statusCode = code
                     /\ \E x \in m.methodIntegration.integrationResponses :
                          x.statusCode = code
       /\ StatementsOf(r) # {}

\* C3: a run whose addPermission call failed is rejected and sets no url.
C3_AddPermissionFatal ==
  \A r \in Runs :
    (\E i \in CallsOf(r) : calls[r][i].op = "addPermission" /\ ~calls[r][i].ok)
    => /\ pc[r] = "rejected"
       /\ Prop(evt[r].endpoint, "url") = Undef

\* C4: over all runs createResource is issued at most once for a parent and
\* path part, and no createResource call is answered with a conflict.
C4_CreateResourceOnce ==
  \A r, q \in Runs : \A i \in CallsOf(r), j \in CallsOf(q) :
    (calls[r][i].op = "createResource" /\ calls[q][j].op = "createResource")
    => /\ calls[r][i].ok
       /\ calls[r][i].params = calls[q][j].params => (r = q /\ i = j)

\* The absolute paths of the segments of a normalized path and of their
\* ancestors: /a, /a/b, /a/b/a for a/b/a.
PrefixPaths(path) ==
  LET segs == Split(path, "/")
  IN  {<<"/">> \o Join(SubSeq(segs, 1, k), "/") : k \in 1..Len(segs)}

\* C5: _createEndpointResources ends with evt.resource a node whose path is
\* '/' + path, every segment of the path having a node.
C5_LeafResolved ==
  \A r \in Runs :
    "resource" \in DOMAIN evt[r]
    => /\ evt[r].resource # Undef
       /\ evt[r].resource.path = <<"/">> \o evt[r].endpoint.path.v
       /\ \A p \in PrefixPaths(evt[r].endpoint.path.v) :
            \E i \in 1..Len(remoteResources) : remoteResources[i].path = p

\* Run r has computed its statementId.
Prepared(r) == pc[r] # "idle" /\ "statementId" \in DOMAIN evt[r].endpoint

\* C7: the policy never holds more than one statement with the endpoint's
\* statementId, and holds exactly one once a run for the endpoint is over.
C7_OneStatement ==
  \A r \in Runs :
    Prepared(r)
    => /\ Cardinality(StatementsOf(r)) <= 1
       /\ (pc[r] = "resolved" /\ LastRun(r)) => Cardinality(StatementsOf(r)) = 1

\* C8: two prepared endpoint definitions have the same statementId exactly
\* when their normalized paths and their normalized methods are the same.
C8_StatementIdOfPathAndMethod ==
  \A r, q \in Runs :
    (Prepared(r) /\ Prepared(q))
    => ((evt[r].endpoint.statementId = evt[q].endpoint.statementId)
        <=> (/\ evt[r].endpoint.path = evt[q].endpoint.path
             /\ evt[r].endpoint.method = evt[q].endpoint.method))

\* C9: a putMethod that follows a deleteMethod in a run follows a delay that
\* follows the deleteMethod.
C9_DelayBeforePut ==
  \A r \in Runs : \A i, j \in CallsOf(r) :
    (i < j /\ calls[r][i].op = "deleteMethod" /\ calls[r][j].op = "putMethod")
    => \E k \in CallsOf(r) : i < k /\ k < j /\ calls[r][k].op = "delay"

\* The values of the declared requestParameters.
DeclaredParameters(endpoint) ==
  {endpoint.requestParameters.v[i].v : i \in 1..Len(endpoint.requestParameters.v)}

\* C10: every putMethod carries the declared authorizationType,
\* apiKeyRequired and requestModels, and a request parameter for every entry
\* of the declared requestParameters.
C10_MethodAsDeclared ==
  \A r \in Runs : \A i \in CallsOf(r) :
    calls[r][i].op = "putMethod"
    => /\ calls[r][i].params.authorizationType = given[r].authorizationType
       /\ calls[r][i].params.apiKeyRequired = given[r].apiKeyRequired
       /\ calls[r][i].params.requestModels = Prop(given[r], "requestModels")
       /\ calls[r][i].params.requestParameters = DeclaredParameters(given[r])

\* The remote calls of the resource, method, integration and response stages.
StageOps == {"createResource", "getMethod", "deleteMethod", "putMethod",
             "putIntegration", "putMethodResponse", "putIntegrationResponse"}

\* getMethod answered that there is no such method.
NotFoundOutcome(c) ==
  c.op = "getMethod" /\ ~c.ok /\ c.error = "NotFoundException"

\* C11: a failed remote call of the resource, method, integration or response
\* stages (the not-found answer of getMethod apart) is the last call of its
\* run, compensating calls included, and the run is rejected.
C11_StageFailureAborts ==
  \A r \in Runs : \A i \in CallsOf(r) :
    (calls[r][i].op \in StageOps /\ ~calls[r][i].ok /\ ~NotFoundOutcome(calls[r][i]))
    => /\ i = Len(calls[r])
       /\ pc[r] = "rejected"

\* The remote calls of run r, in order, the settling delay left out.
RemoteCallsOf(r) == SelectSeq(calls[r], LAMBDA c : c.op # "delay")

\* The place of a remote call in the pipeline.
RankOf(op) ==
  CASE op = "getFunction"            -> 1
    [] op = "getResources"           -> 2
    [] op = "createResource"         -> 3
    [] op = "getMethod"              -> 4
    [] op = "deleteMethod"           -> 5
    [] op = "putMethod"              -> 6
    [] op = "putIntegration"         -> 7
    [] op = "putMethodResponse"      -> 8
    [] op = "putIntegrationResponse" -> 9
    [] op = "getPolicy"              -> 10
    [] op = "removePermission"       -> 11
    [] op = "addPermission"          -> 12

\* The calls issued once per segment or once per response key.
RepeatedOps == {"createResource", "putMethodResponse", "putIntegrationResponse"}

\* The failures the protocol goes on after: no method yet, no policy yet, no
\* statement to remove.
Tolerated(c) == NotFoundOutcome(c) \/ c.op \in {"getPolicy", "removePermission"}

\* C13: the remote calls of a run are issued in the order getFunction,
\* getResources, createResource per segment, getMethod, deleteMethod,
\* putMethod, putIntegration, putMethodResponse per key,
\* putIntegrationResponse per key, getPolicy, removePermission, addPermission,
\* each only after the one before it returned successfully (or with an
\* answer the protocol expects: no method, no policy, no statement).
C13_SequentialPipeline ==
  \A r \in Runs :
    LET cs == RemoteCallsOf(r)
    IN  \A i \in 1..Len(cs) : \A j \in 1..Len(cs) :
          i < j => /\ RankOf(cs[i].op) <= RankOf(cs[j].op)
                   /\ RankOf(cs[i].op) = RankOf(cs[j].op) => cs[i].op \in RepeatedOps
                   /\ j = i + 1 => (cs[i].ok \/ Tolerated(cs[i]))

\* C14: after the not-found answer of getMethod the run goes on to putMethod
\* and is not rejected for it; after any other failure of getMethod the run
\* does not go on to putMethod.
C14_NotFoundDistinguished ==
  \A r \in Runs : \A i \in CallsOf(r) :
    (calls[r][i].op = "getMethod" /\ ~calls[r][i].ok)
    => IF calls[r][i].error = "NotFoundException"
         THEN IF i = Len(calls[r]) THEN pc[r] = "putMethod"
              ELSE calls[r][i + 1].op = "putMethod"
         ELSE IF i = Len(calls[r]) THEN pc[r] # "putMethod"
              ELSE calls[r][i + 1].op # "putMethod"

\* The endpoint of run r is deployed in full: one method on its resource and
\* verb, with an integration, a method response and an integration response
\* for every response key, and one statement with its statementId.
Converged(r) ==
  /\ Cardinality(MethodsOf(r)) = 1
  /\ \A m \in MethodsOf(r) :
       /\ m.methodIntegration # Undef
       /\ \A i \in 1..Len(evt[r].endpoint.responses.v) :
            LET code == evt[r].endpoint.responses.v[i].v.statusCode
            IN  /\ \E x \in m.methodResponses : x.statusCode = code
                /\ \E x \in m.methodIntegration.integrationResponses : x.statusCode = code
  /\ Cardinality(StatementsOf(r)) = 1
  /\ \A i, j \in 1..Len(remoteResources) :
       remoteResources[i].path = remoteResources[j].path => i = j

\* C12: a run without a failing call, for the endpoint definition of a run
\* that a failing remote call got rejected, resolves and leaves the endpoint
\* deployed in full, as a successful run does.
C12_Resumable ==
  \A r \in Runs \ {1} :
    (/\ Finished(r) /\ LastRun(r)
     /\ pc[r - 1] = "rejected" /\ ~NoFaultIn(r - 1)
     /\ given[r] = given[r - 1]
     /\ NoFaultIn(r))
    => /\ pc[r] = "resolved"
       /\ Converged(r)

\* The selectionPattern the spec derives for a response entry.
DeclaredSelectionPattern(entry) ==
  IF "selectionPattern" \in DOMAIN entry.v THEN entry.v.selectionPattern
  ELSE IF entry.k = "default" THEN Null
  ELSE Str(<<entry.k>>)

\* C15: every putIntegrationResponse carries the selectionPattern its
\* response declares, whatever string that is; with none declared, null for
\* the key "default" and the key itself for any other key.
C15_SelectionPattern ==
  \A r \in Runs : \A i \in CallsOf(r) :
    calls[r][i].op = "putIntegrationResponse"
    => \E k \in 1..Len(given[r].responses.v) :
         LET entry == given[r].responses.v[k]
         IN  /\ entry.v.statusCode = calls[r][i].params.statusCode
             /\ calls[r][i].params.selectionPattern = DeclaredSelectionPattern(entry)

\* C16: a failed putMethodResponse or putIntegrationResponse is the last call
\* of its run, so neither the remaining keys nor the permission stage are
\* executed, and the run is rejected with no url set.
C16_ResponseFailureFatal ==
  \A r \in Runs : \A i \in CallsOf(r) :
    (calls[r][i].op \in {"putMethodResponse", "putIntegrationResponse"} /\ ~calls[r][i].ok)
    => /\ i = Len(calls[r])
       /\ pc[r] = "rejected"
       /\ Prop(evt[r].endpoint, "url") = Undef

\* C16's case: of two response keys the first one's putIntegrationResponse
\* failed, after the method responses of both were applied.
C16_Witness ==
  \E r \in Runs :
    /\ pc[r] = "rejected"
    /\ Len(ResponseKeys(evt[r].endpoint)) = 2
    /\ calls[r] # <<>>
    /\ LET last == calls[r][Len(calls[r])]
       IN  /\ last.op = "putIntegrationResponse" /\ ~last.ok
           /\ last.params.statusCode = "200"
    /\ \E m \in MethodsOf(r) : Cardinality(m.methodResponses) = 2

\* The addPermission calls of run r.
AddPermissionCalls(r) == {i \in CallsOf(r) : calls[r][i].op = "addPermission"}

\* C17: a run that has reached the permission stage is not rejected,
\* whatever getPolicy and removePermission answer, and once the stage is
\* over it has issued addPermission exactly once, with the endpoint's
\* statementId.
C17_AddPermissionUnconditional ==
  \A r \in Runs :
    Called(r, "getPolicy")
    => /\ pc[r] # "rejected"
       /\ Cardinality(AddPermissionCalls(r)) <= 1
       /\ pc[r] \in {"deployed", "resolved"} => Cardinality(AddPermissionCalls(r)) = 1
       /\ \A i \in AddPermissionCalls(r) :
            calls[r][i].params.StatementId = evt[r].endpoint.statementId.v

\* C17's case: removePermission failed and addPermission was issued after it.
C17_Witness ==
  \E r \in Runs : \E i \in CallsOf(r) : \E j \in AddPermissionCalls(r) :
    /\ pc[r] = "resolved"
    /\ calls[r][i].op = "removePermission" /\ ~calls[r][i].ok
    /\ i < j

\* The createResource calls of run r, and the ones that succeeded.
CreateResourceCalls(r) == {i \in CallsOf(r) : calls[r][i].op = "createResource"}

CreatedBy(r) == {i \in CreateResourceCalls(r) : calls[r][i].ok}

\* The absolute path a createResource call of run r asks for.
CreatedPath(r, i) ==
  LET params == calls[r][i].params
      known  == evt[r].apiResources
      parent == known[CHOOSE k \in 1..Len(known) : known[k].id = params.parentId]
  IN  IF parent.path = <<"/">> THEN <<"/">> \o params.pathPart
      ELSE parent.path \o <<"/">> \o params.pathPart

\* The paths of the snapshot run r fetched, before it appended to it.
SnapshotPaths(r) ==
  LET known == evt[r].apiResources
  IN  {known[k].path : k \in 1..(Len(known) - Cardinality(CreatedBy(r)))}

\* The absolute path prefixes of the endpoint's path that the snapshot lacks.
MissingPaths(r) == PrefixPaths(evt[r].endpoint.path.v) \ SnapshotPaths(r)

\* C18: a run issues createResource only for path prefixes its snapshot
\* lacks, at most once for each, appends every node it creates to the
\* snapshot, and by the end of the stage has created each of them.
C18_ResourceReuse ==
  \A r \in Runs :
    "apiResources" \in DOMAIN evt[r]
    => /\ \A i \in CreateResourceCalls(r) : CreatedPath(r, i) \in MissingPaths(r)
       /\ \A i, j \in CreateResourceCalls(r) :
            CreatedPath(r, i) = CreatedPath(r, j) => i = j
       /\ \A i \in CreatedBy(r) :
            \E k \in 1..Len(evt[r].apiResources) :
              evt[r].apiResources[k].path = CreatedPath(r, i)
       /\ "resource" \in DOMAIN evt[r]
            => \A p \in MissingPaths(r) : \E i \in CreatedBy(r) : CreatedPath(r, i) = p

\* The context of run r: its evt, the Builder's position in the chain and in
\* its iterations, the calls it issued and the error it was rejected with.
ContextOf(r) == <<given[r], evt[r], pc[r], eachIndex[r], calls[r], outcome[r]>>

\* The descriptor a run of build returns for a definition when it is alone.
DescriptorAlone(endpoint) ==
  LET prepared == PrepareEndpoint(endpoint)
  IN  [path        |-> prepared.path,
       method      |-> prepared.method,
       statementId |-> prepared.statementId,
       url         |-> Str(EndpointUrl([stage |-> Stage, region |-> Region,
                                        endpoint |-> prepared]))]

C20_InputsReadOnly ==
  \A r \in Runs :
    Finished(r) => /\ evt[r].endpoint = given[r]
                   /\ evt[r].region = Region

\* C21: a definition whose apiKeyRequired, requestParameters or responses is
\* null is rejected by validation; a definition with every required property
\* present and not null passes it, empty values included, and keeps the
\* values of these properties.
C21_NullRejectedEmptyAccepted ==
  \A r \in Runs :
    pc[r] # "idle"
    => /\ (\E f \in NullableFields : Prop(given[r], f) = Null)
            => (pc[r] = "rejected" /\ outcome[r].type = "SError")
       /\ (\A f \in RequiredFields : Prop(given[r], f) \notin {Undef, Null})
            => /\ pc[r] # "rejected"
               /\ \A f \in NullableFields \cup {"requestTemplates"} :
                    evt[r].endpoint[f] = given[r][f]

\* The url the spec gives the endpoint of a definition: the declared path
\* without its leading slash, after the API's host and the stage.
DeclaredUrl(endpoint) ==
  LET path == endpoint.path.v
  IN  <<"https://">> \o Region.restApiId \o <<".execute-api.">> \o Region.region
      \o <<".amazonaws.com/">> \o Stage \o <<"/">>
      \o (IF path # <<>> /\ Head(path) = "/" THEN Tail(path) ELSE path)

\* C22: a resolved run returns that url; the url is set only once the
\* permission stage is over, and a rejected run has none.
C22_UrlOfDeployedEndpoint ==
  \A r \in Runs :
    /\ pc[r] = "resolved" => Prop(evt[r].endpoint, "url") = Str(DeclaredUrl(given[r]))
    /\ (pc[r] # "idle" /\ Prop(evt[r].endpoint, "url") # Undef)
         => (pc[r] = "resolved" /\ Called(r, "addPermission"))

\* C22's case: a run for a path declared with a leading slash and more than
\* one segment has resolved.
C22_Witness ==
  \E r \in Runs :
    /\ pc[r] = "resolved"
    /\ Head(given[r].path.v) = "/"
    /\ Len(Split(evt[r].endpoint.path.v, "/")) > 1
    /\ Prop(evt[r].endpoint, "url") = Str(DeclaredUrl(given[r]))

\* The alias the spec puts in the uri: the one the caller supplied, or the
\* stage-variable placeholder.
SuppliedAlias(r) ==
  IF "aliasEndpoint" \in DOMAIN evt[r] THEN evt[r].aliasEndpoint.v
  ELSE <<"${stageVariables.functionAlias}">>

RootDeclared(r) ==
  /\ pc[r] # "idle"
  /\ Prop(given[r], "path") = Str(<<"/">>)
  /\ "apiResources" \in DOMAIN evt[r]

\* C24: a run for the path declared as '/' issues no createResource, is not
\* rejected in _createEndpointResources, and leaves the stage with
\* evt.resource the node of the snapshot whose path is '/'.
C24_RootPath ==
  \A r \in Runs :
    RootDeclared(r)
    => /\ ~Called(r, "createResource")
       /\ outcome[r] # TypeError("createEndpointResources")
       /\ pc[r] # "createEndpointResources"
            => /\ "resource" \in DOMAIN evt[r]
               /\ evt[r].resource # Undef
               /\ evt[r].resource.path = <<"/">>
               /\ \E k \in 1..Len(evt[r].apiResources) :
                    evt[r].apiResources[k] = evt[r].resource

\* C24's case: the stage is over for the path '/', on a snapshot that holds
\* other nodes than the root.
C24_Witness ==
  \E r \in Runs :
    /\ RootDeclared(r)
    /\ "resource" \in DOMAIN evt[r]
    /\ evt[r].resource = RootNode
    /\ Len(evt[r].apiResources) > 1

\* The arguments of a logged call.
ParamsOf(c) == IF "params" \in DOMAIN c THEN c.params ELSE <<>>

\* The getResources calls of run r.
GetResourcesCalls(r) == {i \in CallsOf(r) : calls[r][i].op = "getResources"}

\* C25: in a run no call that failed is issued again with the same operation
\* and arguments; a run fetches the resources at most once, and exactly once
\* before it uses a snapshot, which is then the remote list of that moment
\* and not what an earlier run held.
C25_NoRetry ==
  \A r \in Runs :
    /\ \A i \in CallsOf(r) : \A j \in CallsOf(r) :
         (i < j /\ ~calls[r][i].ok)
         => ~(calls[r][j].op = calls[r][i].op /\ ParamsOf(calls[r][j]) = ParamsOf(calls[r][i]))
    /\ Cardinality(GetResourcesCalls(r)) <= 1
    /\ (pc[r] # "idle" /\ "apiResources" \in DOMAIN evt[r])
         => /\ \E i \in GetResourcesCalls(r) : calls[r][i].ok
            /\ calls[r][Len(calls[r])].op = "getResources"
                 => evt[r].apiResources = remoteResources

\* C25's case: a run follows one that created resources and was rejected by
\* a failed call, and has fetched the resources again.
C25_Witness ==
  \E r \in Runs \ {1} :
    /\ pc[r - 1] = "rejected"
    /\ \E i \in CreatedBy(r - 1) : ~calls[r - 1][Len(calls[r - 1])].ok
    /\ calls[r] # <<>>
    /\ calls[r][Len(calls[r])].op = "getResources"
    /\ evt[r].apiResources = remoteResources
    /\ Len(evt[r].apiResources) > 1

\* Whether the event the caller passed has stage, region and key, its stage
\* exists in the project or is 'local', and its region is defined in that
\* stage or is 'all'.
StageInProject(stage) == ~Falsy(ObjectGet(S.projectJson.stages, PropertyKey(stage)))

EventComplete(e) ==
  /\ ~Falsy(Prop(e, "stage")) /\ ~Falsy(Prop(e, "region")) /\ ~Falsy(Prop(e, "key"))
  /\ StageInProject(e.stage) \/ e.stage = Str(<<"local">>)
  /\ \/ e.region = Str(<<"all">>)
     \/ StageInProject(e.stage) /\ RegionInStage(S, e.stage, e.region)

Invoked == {r \in Runs : invocation[r].pc # "idle" /\ invocation[r].evt # Undef}

\* C26: envGet called with an event fetches env files and resolves with
\* valByRegion only when the event has stage, region and key, the stage is in
\* the project or is 'local', and the region is defined in the stage or is
\* 'all'; otherwise it rejects before any fetch; it never prompts.
C26_FetchOnlyOfCompleteEvent ==
  \A r \in Invoked :
    /\ invocation[r].prompts = <<>>
    /\ invocation[r].pc = "resolved" => "valByRegion" \in DOMAIN invocation[r].outcome.evt
    /\ EventComplete(invocation[r].evt)
         \/ /\ invocation[r].fetched = <<>>
            /\ invocation[r].pc \notin {"getEnvVar", "resolved"}

RemovePermissionCalls(r) == {i \in CallsOf(r) : calls[r][i].op = "removePermission"}

\* The policy fetched in the run has a statement with the endpoint's
\* statementId.
FetchedOwnStatement(r) ==
  /\ "lambdaPolicy" \in DOMAIN evt[r].endpoint
  /\ \E i \in 1..Len(evt[r].endpoint.lambdaPolicy.Statement) :
       evt[r].endpoint.lambdaPolicy.Statement[i].Sid = evt[r].endpoint.statementId.v

PastRemoval(r) ==
  /\ pc[r] \in {"addLambdaPermission", "deployed", "resolved"}
  /\ Called(r, "getPolicy")

\* C27: removePermission is issued in a run exactly when the policy fetched
\* in that run holds a statement with the endpoint's statementId (never when
\* the policy has only other statements), and it names that statementId.
C27_RemoveOnlyOwnStatement ==
  \A r \in Runs :
    /\ PastRemoval(r) => (RemovePermissionCalls(r) # {} <=> FetchedOwnStatement(r))
    /\ \A i \in RemovePermissionCalls(r) :
         calls[r][i].params.StatementId = evt[r].endpoint.statementId.v

\* The absolute path of the first k segments of a normalized path.
AbsolutePath(path, k) == <<"/">> \o Join(SubSeq(Split(path, "/"), 1, k), "/")

\* Run r issues createResource in this step.
IssuesCreateResource(r) ==
  /\ Len(calls'[r]) = Len(calls[r]) + 1
  /\ calls'[r][Len(calls'[r])].op = "createResource"

\* C28: each createResource call has pathPart equal to the segment the
\* iteration is at and parentId equal to the id of the snapshot node whose
\* path is the absolute path of the segments before it ('/' for the first
\* segment), and the parent lookup always finds a node.
C28_CreateUnderParent ==
  [][\A r \in Runs :
       /\ IssuesCreateResource(r)
            => LET path   == evt[r].endpoint.path.v
                   k      == eachIndex[r]
                   known  == evt[r].apiResources
                   params == calls'[r][Len(calls'[r])].params
               IN  /\ params.pathPart = Split(path, "/")[k]
                   /\ \E n \in 1..Len(known) :
                        /\ known[n].path = AbsolutePath(path, k - 1)
                        /\ known[n].id = params.parentId
       /\ ~(/\ pc[r] = "createEndpointResources"
            /\ pc'[r] = "rejected"
            /\ outcome'[r] = TypeError("createEndpointResources"))]_vars

Started(r) == pc[r] # "idle"

\* C29: with every remote call returning, a run that was started ends,
\* resolved or rejected, with an error exactly when rejected, and its outcome
\* then stays.
C29_RunTerminates ==
  /\ \A r \in Runs : Started(r) ~> Finished(r)
  /\ [][\A r \in Runs :
          Finished(r) => pc'[r] = pc[r] /\ outcome'[r] = outcome[r]]_vars
  /\ [](\A r \in Runs :
          /\ pc[r] = "resolved" => outcome[r] = NoError
          /\ pc[r] = "rejected" => outcome[r] # NoError)

C29_Witness ==
  \E r \in Runs :
    /\ pc[r] = "resolved"
    /\ Called(r, "createResource") /\ Called(r, "delay") /\ Called(r, "addPermission")
    /\ \E i \in CallsOf(r) : calls[r][i].fault

\* The endpoint a run deploys: its normalized path and method.
EndpointOf(r) == <<evt[r].endpoint.path, evt[r].endpoint.method>>

\* The policy holds a grant whose source ARN names the endpoint of run r.
Granted(r) ==
  \E i \in 1..Len(remotePolicy) :
    remotePolicy[i].SourceArn = AddPermissionParams(evt[r]).SourceArn

\* C30: once the runs for two endpoints that differ in path or method have
\* both resolved, in either order, the policy holds a grant for each of
\* them, with the source ARN of its own method and path.
C30_GrantsOfOthersKept ==
  \A r \in Runs : \A q \in Runs :
    (/\ pc[r] = "resolved" /\ pc[q] = "resolved"
     /\ EndpointOf(r) # EndpointOf(q))
    => Granted(r) /\ Granted(q)

\* What envGet returns for an event when it is the only invocation.
ValuesOf(e) == ValByRegion(GetEnvFiles(S, e.region, e.stage), e.key)

\* C31: of two envGet invocations on one plugin instance that overlap, each
\* resolves with its own key, stage and region and with the values of its
\* own event, under every interleaving.
C31_OwnValuesReturned ==
  \A r \in Runs :
    invocation[r].pc = "resolved"
    => /\ Prop(invocation[r].outcome.evt, "stage") = invocation[r].evt.stage
       /\ Prop(invocation[r].outcome.evt, "region") = invocation[r].evt.region
       /\ Prop(invocation[r].outcome.evt, "key") = invocation[r].evt.key
       /\ invocation[r].outcome.evt.valByRegion = ValuesOf(invocation[r].evt)

\* The zip buffer of the event passed is over the limit.
ZipTooBig ==
  /\ compressor.given # Undef
  /\ compressor.given.function.pathsPackaged # Undef
  /\ ZipBufferLength(compressor.given.function.pathsPackaged) > MaxZipBytes

\* C32: with a zip buffer over 52428800 bytes the action is rejected with
\* ZIP_TOO_BIG, no package is written and function.pathCompressed is not
\* set; a package is written and the event returned only within the limit.
C32_ZipTooBigRejected ==
  /\ ZipTooBig
       => /\ compressor.disk = {}
          /\ "pathCompressed" \notin DOMAIN compressor.evt.function
          /\ compressor.pc \in {"resolved", "rejected"}
               => /\ compressor.pc = "rejected"
                  /\ compressor.outcome = [type |-> "rejected", error |-> "ZIP_TOO_BIG"]
  /\ (compressor.disk # {} \/ compressor.outcome = [type |-> "resolved", value |-> compressor.evt])
       => ~ZipTooBig

====
